---- MODULE Spec2Model ----
(***************************************************************************)
(* A model of go-polygon-fixer's topology-cleaning subsystem:              *)
(*   - utils/worker-pool.go : WorkerPool, ProgressTracker, ProcessBatch    *)
(*   - utils/spatial-index.go : the uniform grid index                     *)
(*   - handlers (CleanTopology and its parallel stages, conservativeSnap)  *)
(*   - main.go : cleanTopologyHandler                                      *)
(* Geometry handles are indices into `heap`; the geometry kernel (GEOS) is *)
(* an external library and is modelled on axis-aligned integer boxes.      *)
(***************************************************************************)
EXTENDS Integers, Sequences, FiniteSets, TLC

\* ------------------------------------------------------------------ bounds
MaxJobs == 3       \* items of a ProcessBatch call studied on its own
MaxCPU == 2        \* processing units of the host
MaxFeatures == 2   \* features of a request
MaxBudget == 6     \* largest maxDistortion of a conservativeSnap call studied on its own
MaxCoord == 2      \* box coordinates of the index studied on its own: -MaxCoord..MaxCoord
MaxCell == 3       \* cell sizes of the index studied on its own: 1..MaxCell
MaxDist == 2       \* search distances of the index studied on its own: 0..MaxDist

\* nil (a Go nil pointer / nil interface value)
Nil == 0

VARIABLES
  \* ---- the host
  NumCPU,        \* runtime.NumCPU()
  \* ---- geometry handles and the structures of one cleaning request
  heap,          \* the kernel's handles: geometry value, Destroy count, provenance
  spatialIndex,  \* utils.SpatialIndex: geometries, cellSize, grid
  call,          \* the latest call of a function studied on its own: args and returns
  \* ---- ParallelProcessor / WorkerPool / ProgressTracker (one ProcessBatch call)
  ppNumWorkers,  \* ParallelProcessor.NumWorkers
  items,         \* the items argument of ProcessBatch
  workKind,      \* which work function was passed
  pbpc,          \* position of the goroutine that called ProcessBatch
  sub,           \* number of items submitted so far (the submit loop's index)
  JobQueue,      \* wp.JobQueue: the buffered channel's content (positions into items)
  jqClosed,      \* close(wp.JobQueue) has happened
  Results,       \* wp.Results: the buffered channel's content
  resClosed,     \* close(wp.Results) has happened
  wst,           \* per worker goroutine: "recv" | "work" | "exited"
  wjob,          \* per worker goroutine: the position of the job it holds
  results,       \* the results slice ProcessBatch builds
  got,           \* the collect loop's index
  Processed,     \* tracker.Processed
  wg,            \* wp.wg's counter
  calls,         \* history: per item, how often workFunc was invoked on it
  done,          \* history: per item, how often workFunc returned for it
  \* ---- one cleaning request: cleanTopologyHandler -> CleanTopologyWithShapefile
  \*      -> CleanTopology
  payload,       \* the request body: [wellformed, features]
  pc,            \* position of the goroutine serving the request
  idx,           \* the index of the loop that goroutine is in
  geomFeatures,          \* CleanTopology's geomFeatures
  originalGeomFeatures,  \* CleanTopology's originalGeomFeatures
  cleanedGeometries,     \* CleanTopology's cleanedGeometries
  validatedGeometries,   \* CleanTopology's validatedGeometries
  coverageReport,        \* CleanTopology's coverageReport
  ctRet,         \* what CleanTopology returned: [result, err]
  wsRet,         \* what CleanTopologyWithShapefile returned: [zip, err]
  response,      \* what the handler wrote: [status, body]
  crashed,       \* the process was terminated by an unrecovered panic
  faults,        \* history: the goroutines in which a panic was raised
  recovered,     \* history: the functions whose deferred recover() caught a panic
  stageLog,      \* history: per stage, jobs submitted / started / finished
  superseded     \* history: handles a record held until an accepted snap replaced them

bvars == <<ppNumWorkers, items, workKind, pbpc, sub, JobQueue, jqClosed, Results,
           resClosed, wst, wjob, results, got, Processed, wg, calls, done>>

pvars == <<payload, pc, idx, geomFeatures, originalGeomFeatures, cleanedGeometries,
           validatedGeometries, coverageReport, ctRet, wsRet, response, crashed,
           faults, recovered, stageLog, superseded>>

vars == <<NumCPU, heap, spatialIndex, call, bvars, pvars>>

Workers == DOMAIN wst

Min(a, b) == IF a <= b THEN a ELSE b
Max(a, b) == IF a >= b THEN a ELSE b
Abs(a) == IF a < 0 THEN -a ELSE a

\* ------------------------------------------------- channels (Go semantics)
\* a receive from a buffered channel takes its oldest element
ChanHead(ch) == Head(ch)
ChanRestKeeps(ch) == ch
ChanRest(ch) == Tail(ch)
\* a send on a buffered channel appends
ChanSend(ch, v) == Append(ch, v)

\* ------------------------------------------------- worker-pool.go
\* NewParallelProcessor / NewWorkerPool: numWorkers <= 0 means runtime.NumCPU()
OneWorkerMore(n) == IF n <= 0 THEN NumCPU + 1 ELSE n + 1
EffectiveWorkers(n) == IF n <= 0 THEN NumCPU ELSE n

\* the state of the batch executor before ProcessBatch is called
BatchIdle ==
  /\ items = <<>> /\ workKind = "none" /\ pbpc = "idle" /\ sub = 0
  /\ JobQueue = <<>> /\ jqClosed = FALSE /\ Results = <<>> /\ resClosed = FALSE
  /\ wst = <<>> /\ wjob = <<>> /\ results = <<>> /\ got = 0 /\ Processed = 0
  /\ wg = 0 /\ calls = <<>> /\ done = <<>>

\* NewParallelProcessor(n) followed by ProcessBatch, lines 114-144: the empty
\* batch returns at once; otherwise the tracker and the pool are created
\* (NewWorkerPool applies the <= 0 default again) and StartWorkers launches the
\* goroutines and adds them to the wait group.
PBEnter(n, its, kind) ==
  /\ ppNumWorkers' = EffectiveWorkers(n)
  /\ items' = its
  /\ workKind' = kind
  /\ sub' = 0
  /\ got' = 0
  /\ results' = <<>>
  /\ Processed' = 0
  /\ JobQueue' = <<>>
  /\ Results' = <<>>
  /\ jqClosed' = FALSE
  /\ resClosed' = FALSE
  /\ calls' = [k \in 1..Len(its) |-> 0]
  /\ done' = [k \in 1..Len(its) |-> 0]
  /\ IF Len(its) = 0
       THEN /\ pbpc' = "returned"
            /\ wst' = <<>> /\ wjob' = <<>> /\ wg' = 0
       ELSE /\ pbpc' = "submit"
            /\ wst' = [w \in 1..EffectiveWorkers(EffectiveWorkers(n)) |-> "recv"]
            /\ wjob' = [w \in 1..EffectiveWorkers(EffectiveWorkers(n)) |-> 0]
            /\ wg' = EffectiveWorkers(EffectiveWorkers(n))

\* SubmitJob in the loop of lines 147-149 (the queue's capacity is len(items))
PBSubmit ==
  /\ pbpc = "submit"
  /\ sub < Len(items)
  /\ Len(JobQueue) < Len(items)
  /\ ~jqClosed
  /\ JobQueue' = ChanSend(JobQueue, sub + 1)
  /\ sub' = sub + 1
  /\ UNCHANGED <<ppNumWorkers, items, workKind, pbpc, jqClosed, Results, resClosed,
                 wst, wjob, results, got, Processed, wg, calls, done>>

\* a caller that returns as soon as the jobs are submitted
PBCloseJobsReturns ==
  /\ pbpc = "submit"
  /\ sub = Len(items)
  /\ jqClosed' = TRUE
  /\ pbpc' = "returned"
  /\ UNCHANGED <<ppNumWorkers, items, workKind, sub, JobQueue, Results, resClosed,
                 wst, wjob, results, got, Processed, wg, calls, done>>

\* close(wp.JobQueue), line 152
PBCloseJobs ==
  /\ pbpc = "submit"
  /\ sub = Len(items)
  /\ jqClosed' = TRUE
  /\ pbpc' = "collect"
  /\ UNCHANGED <<ppNumWorkers, items, workKind, sub, JobQueue, Results, resClosed,
                 wst, wjob, results, got, Processed, wg, calls, done>>

\* a nil interface value on the results channel
NilResult == [nil |-> TRUE]

\* lines 158-160: a nil result is dropped
KeepResult(rs, r) == IF r # NilResult THEN Append(rs, r) ELSE rs

\* a collect loop that returns with the first result
PBCollectFirst ==
  /\ pbpc = "collect"
  /\ got < Len(items)
  /\ Results # <<>>
  /\ results' = KeepResult(results, ChanHead(Results))
  /\ Results' = ChanRest(Results)
  /\ got' = got + 1
  /\ pbpc' = "returned"
  /\ UNCHANGED <<ppNumWorkers, items, workKind, sub, JobQueue, jqClosed, resClosed,
                 wst, wjob, Processed, wg, calls, done>>

\* the collect loop, lines 155-161
PBCollect ==
  /\ pbpc = "collect"
  /\ got < Len(items)
  /\ Results # <<>>
  /\ results' = KeepResult(results, ChanHead(Results))
  /\ Results' = ChanRest(Results)
  /\ got' = got + 1
  /\ pbpc' = IF got + 1 = Len(items) THEN "wait" ELSE "collect"
  /\ UNCHANGED <<ppNumWorkers, items, workKind, sub, JobQueue, jqClosed, resClosed,
                 wst, wjob, Processed, wg, calls, done>>

\* a caller that closes the results channel without waiting for the workers
PBReturnNoWait ==
  /\ pbpc = "wait"
  /\ resClosed' = TRUE
  /\ pbpc' = "returned"
  /\ UNCHANGED <<ppNumWorkers, items, workKind, sub, JobQueue, jqClosed, Results,
                 wst, wjob, results, got, Processed, wg, calls, done>>

\* wp.wg.Wait(), close(wp.Results) and the return, lines 164-170
PBWaitReturn ==
  /\ pbpc = "wait"
  /\ wg = 0
  /\ resClosed' = TRUE
  /\ pbpc' = "returned"
  /\ UNCHANGED <<ppNumWorkers, items, workKind, sub, JobQueue, jqClosed, Results,
                 wst, wjob, results, got, Processed, wg, calls, done>>

\* worker, line 56: `for job := range wp.JobQueue` receives the next job
WRecv(w) ==
  /\ wst[w] = "recv"
  /\ JobQueue # <<>>
  /\ wjob' = [wjob EXCEPT ![w] = ChanHead(JobQueue)]
  /\ JobQueue' = ChanRest(JobQueue)
  /\ wst' = [wst EXCEPT ![w] = "work"]
  /\ calls' = [calls EXCEPT ![ChanHead(JobQueue)] = @ + 1]
  /\ UNCHANGED <<ppNumWorkers, items, workKind, pbpc, sub, jqClosed, Results,
                 resClosed, results, got, Processed, wg, done>>

\* a worker that leaves without wg.Done()
WExitKeepsCount(w) ==
  /\ wst[w] = "recv"
  /\ JobQueue = <<>>
  /\ jqClosed
  /\ wst' = [wst EXCEPT ![w] = "exited"]
  /\ UNCHANGED <<ppNumWorkers, items, workKind, pbpc, sub, JobQueue, jqClosed,
                 Results, resClosed, wjob, results, got, Processed, calls, done, wg>>

\* worker, lines 54-56: the range loop ends on a closed, drained queue; wg.Done()
WExit(w) ==
  /\ wst[w] = "recv"
  /\ JobQueue = <<>>
  /\ jqClosed
  /\ wst' = [wst EXCEPT ![w] = "exited"]
  /\ wg' = wg - 1
  /\ UNCHANGED <<ppNumWorkers, items, workKind, pbpc, sub, JobQueue, jqClosed,
                 Results, resClosed, wjob, results, got, Processed, calls, done>>

\* worker, lines 57-59 with the wrapper of lines 140-144: workFunc has returned
\* `r`, the tracker is incremented and the result is sent (capacity len(items)).
WFinish(w, r) ==
  /\ wst[w] = "work"
  /\ Len(Results) < Len(items)
  /\ ~resClosed
  /\ Results' = ChanSend(Results, r)
  /\ Processed' = Processed + 1
  /\ done' = [done EXCEPT ![wjob[w]] = @ + 1]
  /\ wst' = [wst EXCEPT ![w] = "recv"]
  /\ UNCHANGED <<ppNumWorkers, items, workKind, pbpc, sub, JobQueue, jqClosed,
                 resClosed, wjob, results, got, wg, calls>>

\* ------------------------------------------------- the geometry kernel
\* A geometry value is [kind, box, valid]: kind is the GEOS type ("poly" for
\* Polygon/MultiPolygon, "point" for any other type, "empty" for an empty
\* polygon), box = <<minX, minY, maxX, maxY>> in integer length units.
MinX(g) == g.box[1]
MinY(g) == g.box[2]
MaxX(g) == g.box[3]
MaxY(g) == g.box[4]

\* geom.Area()
Area(g) == (MaxX(g) - MinX(g)) * (MaxY(g) - MinY(g))

\* geom.Bounds(): the Box2D of the geometry
Bounds(g) == g.box

\* geom.Buffer(distance, 8).Bounds(): the extremes of a box's buffer lie on its
\* offset edges, exactly `distance` outside the box (the kernel's 8 segments per
\* quadrant approximate only the rounded corners, which lie inside these bounds)
BufferBounds(g, distance) ==
  <<MinX(g) - distance, MinY(g) - distance, MaxX(g) + distance, MaxY(g) + distance>>

\* the gap between two intervals [a1, a2] and [b1, b2] (0 when they meet)
Gap(a1, a2, b1, b2) == Max(0, Max(b1 - a2, a1 - b2))

\* geom.Distance(other), squared: the Euclidean distance between two boxes
DistanceSq(a, b) ==
  Gap(MinX(a), MaxX(a), MinX(b), MaxX(b)) * Gap(MinX(a), MaxX(a), MinX(b), MaxX(b))
  + Gap(MinY(a), MaxY(a), MinY(b), MaxY(b)) * Gap(MinY(a), MaxY(a), MinY(b), MaxY(b))

\* geom.Distance(other) <= d
DistanceLE(a, b, d) == d >= 0 /\ DistanceSq(a, b) <= d * d

\* original.HausdorffDistance(modified): the largest displacement of an edge
HausdorffDistance(a, b) ==
  Max(Max(Abs(MinX(a) - MinX(b)), Abs(MaxX(a) - MaxX(b))),
      Max(Abs(MinY(a) - MinY(b)), Abs(MaxY(a) - MaxY(b))))

\* handles: heap[h] = [geom, rel, src]; rel counts the Destroy calls on h and
\* src is the input feature the handle derives from (0: none)
Alloc(h, g, src) == Append(h, [geom |-> g, rel |-> 0, src |-> src])
NewHandle(h) == Len(h) + 1
DestroyLeaks(h, p) == h
Destroy(h, p) == [h EXCEPT ![p].rel = @ + 1]
Geom(h, p) == h[p].geom

\* ------------------------------------------------- spatial-index.go
\* math.Floor(v / cellSize) converted to int
CellOf(v, cellSize) == v \div cellSize

\* the cell keys of the double loop over [minCell, maxCell], in loop order
\* (x outer, y inner); getCellKey(x, y) is the pair <<x, y>>
RECURSIVE CellRow(_, _, _)
CellRow(x, y, maxY) ==
  IF y > maxY THEN <<>> ELSE <<(<<x, y>>)>> \o CellRow(x, y + 1, maxY)

RECURSIVE CellRange(_, _, _, _)
CellRange(x, maxX, minY, maxY) ==
  IF x > maxX THEN <<>> ELSE CellRow(x, minY, maxY) \o CellRange(x + 1, maxX, minY, maxY)

CellsOfMinCorner(b, cellSize) ==
  <<(<<CellOf(b[1], cellSize), CellOf(b[2], cellSize)>>)>>

CellsOfBox(b, cellSize) ==
  CellRange(CellOf(b[1], cellSize), CellOf(b[3], cellSize),
            CellOf(b[2], cellSize), CellOf(b[4], cellSize))

NewSpatialIndex(cellSize) ==
  [geometries |-> <<>>, cellSize |-> cellSize, grid |-> <<>>]

\* a cell that keeps only the record added last
GridReplace(grid, key, rec) ==
  [k \in DOMAIN grid \cup {key} |-> IF k = key THEN <<rec>> ELSE grid[k]]

\* si.grid[cellKey] = append(si.grid[cellKey], indexedGeom)
GridAppend(grid, key, rec) ==
  IF key \in DOMAIN grid
    THEN [grid EXCEPT ![key] = Append(@, rec)]
    ELSE [k \in DOMAIN grid \cup {key} |-> IF k = key THEN <<rec>> ELSE grid[k]]

RECURSIVE GridAppendAll(_, _, _)
GridAppendAll(grid, keys, rec) ==
  IF keys = <<>> THEN grid
  ELSE GridAppendAll(GridAppend(grid, Head(keys), rec), Tail(keys), rec)

\* the bounds of a geometry for which geom.Bounds() returns nil
NoBox == <<>>

\* addToGrid, lines 46-79
addToGrid(si, h, rec) ==
  IF rec.Geom = Nil THEN si
  ELSE IF Bounds(Geom(h, rec.Geom)) = NoBox THEN si
  ELSE [si EXCEPT !.grid =
          GridAppendAll(@, CellsOfBox(Bounds(Geom(h, rec.Geom)), si.cellSize), rec)]

\* AddGeometry, lines 30-44
AddGeometry(si, h, geom, index, properties) ==
  IF geom = Nil THEN si
  ELSE addToGrid([si EXCEPT !.geometries =
                     Append(@, [Geom |-> geom, Index |-> index, Properties |-> properties])],
                 h, [Geom |-> geom, Index |-> index, Properties |-> properties])

\* FindNeighbors, lines 107-120: the records of the visited cells, in visiting
\* order, without those that hold the query handle
RECURSIVE CellRecords(_, _, _)
CellRecords(grid, keys, geom) ==
  IF keys = <<>> THEN <<>>
  ELSE (IF Head(keys) \in DOMAIN grid
          THEN SelectSeq(grid[Head(keys)], LAMBDA c : c.Geom # geom)
          ELSE <<>>)
       \o CellRecords(grid, Tail(keys), geom)

\* candidates[candidate.Index] = candidate: the last write for an index wins
Candidates(visited) ==
  {visited[i] : i \in {j \in 1..Len(visited) :
      \A k \in (j + 1)..Len(visited) : visited[k].Index # visited[j].Index}}

\* FindNeighbors, lines 81-132. The result is the set of neighbors: the order of
\* the returned slice is the iteration order of a Go map, which is unspecified.
FindNeighbors(si, h, geom, distance) ==
  {c \in Candidates(CellRecords(si.grid,
                      CellsOfBox(BufferBounds(Geom(h, geom), distance), si.cellSize), geom)) :
      DistanceLE(Geom(h, geom), Geom(h, c.Geom), distance)}

\* the index a FindNeighbors call leaves behind: the method only reads
\* si.cellSize and si.grid and writes to locals
IndexAfterQueryEmptiesGrid(si) == [si EXCEPT !.grid = <<>>]
IndexAfterQueryResets(si) == NewSpatialIndex(si.cellSize)
IndexAfterQuery(si) == si

\* ------------------------------------------------- conservative snap policy
\* a distortion score is a rational <<numerator, denominator>>, denominator > 0
ScoreGT(score, limit) == score[1] > limit * score[2]
ScoreLE(score, limit) == score[1] <= limit * score[2]

\* calculateGeometryDistortion, lines 556-579
calculateGeometryDistortion(h, original, modified) ==
  IF original = Nil \/ modified = Nil THEN <<0, 1>>
  ELSE IF Area(Geom(h, original)) = 0 THEN <<0, 1>>
  ELSE <<Abs(Area(Geom(h, modified)) - Area(Geom(h, original)))
           + HausdorffDistance(Geom(h, original), Geom(h, modified)) * Area(Geom(h, original)),
         Area(Geom(h, original))>>

\* geom.Snap(target, tolerance): the kernel either yields nothing (NoSnap) or a
\* new geometry whose edge facing the target has moved by `choice` <= tolerance
NoSnap == -1
SnapShifts == {5, 20}
SnapChoices(tolerance) == {NoSnap} \cup {d \in SnapShifts : d <= tolerance}
KernelSnap(g, choice) == [g EXCEPT !.box[3] = @ + choice]

\* the rejection test of line 597
TooDistortedNever(distortion, maxDistortion) == FALSE
TooDistorted(distortion, maxDistortion) == ScoreGT(distortion, maxDistortion)

\* conservativeSnap, lines 582-603, for the kernel outcome `choice`.
\* Returns the heap, the returned handle, accepted, and the candidate handle.
conservativeSnap(h, geom, target, tolerance, maxDistortion, choice) ==
  IF geom = Nil \/ target = Nil
    THEN [heap |-> h, ret |-> geom, ok |-> FALSE, cand |-> Nil]
  ELSE IF choice = NoSnap
    THEN [heap |-> h, ret |-> geom, ok |-> FALSE, cand |-> Nil]
  ELSE LET h1 == Alloc(h, KernelSnap(Geom(h, geom), choice), h[geom].src)
           snappedGeom == NewHandle(h)
       IN IF TooDistorted(calculateGeometryDistortion(h1, geom, snappedGeom), maxDistortion)
            THEN [heap |-> Destroy(h1, snappedGeom), ret |-> geom, ok |-> FALSE,
                  cand |-> snappedGeom]
            ELSE [heap |-> h1, ret |-> snappedGeom, ok |-> TRUE, cand |-> snappedGeom]

\* ------------------------------------------------- initial values
Stages == {"parse", "snap", "validate", "coverage"}

NoCall == [fn |-> "none"]

ZeroReport ==
  [GapCount |-> 0, OverlapCount |-> 0, OverlapArea |-> 0, TotalGapLength |-> 0,
   MaxGapWidth |-> 0, BoundaryGaps |-> 0]

NotReturned == [returned |-> FALSE]

\* no request is being served
PipeIdle ==
  /\ payload = [wellformed |-> TRUE, features |-> <<>>]
  /\ pc = "none" /\ idx = 0
  /\ geomFeatures = <<>> /\ originalGeomFeatures = <<>>
  /\ cleanedGeometries = <<>> /\ validatedGeometries = <<>>
  /\ coverageReport = ZeroReport
  /\ ctRet = NotReturned /\ wsRet = NotReturned /\ response = NotReturned
  /\ crashed = FALSE /\ faults = {} /\ recovered = {}
  /\ stageLog = [s \in Stages |-> [jobs |-> 0, started |-> 0, finished |-> 0]]
  /\ superseded = {}

Poly(b) == [kind |-> "poly", box |-> b, valid |-> TRUE]

\* ------------------------------------------------- conservativeSnap on its own
SnapBoxes == {<<0, 0, 100, 100>>, <<0, 0, 0, 100>>, <<-50, 0, 50, 10>>}
SnapTolerances == {0, 10, 100}

InitSnap ==
  /\ NumCPU = 1 /\ ppNumWorkers = 1 /\ BatchIdle /\ PipeIdle
  /\ spatialIndex = NewSpatialIndex(1)
  /\ call = NoCall
  /\ \E g \in SnapBoxes :
       heap = <<[geom |-> Poly(g), rel |-> 0, src |-> 1],
                [geom |-> Poly(<<105, 0, 205, 100>>), rel |-> 0, src |-> 2]>>

SnapCall ==
  /\ call.fn = "none"
  /\ \E geom \in {Nil, 1}, target \in {Nil, 2}, tolerance \in SnapTolerances,
        maxDistortion \in 0..MaxBudget :
       \E choice \in SnapChoices(tolerance) :
         LET r == conservativeSnap(heap, geom, target, tolerance, maxDistortion, choice)
         IN /\ heap' = r.heap
            /\ call' = [fn |-> "conservativeSnap", geom |-> geom, target |-> target,
                        tolerance |-> tolerance, maxDistortion |-> maxDistortion,
                        ret |-> r.ret, ok |-> r.ok, cand |-> r.cand]
  /\ UNCHANGED <<NumCPU, spatialIndex, bvars, pvars>>

NextSnap == SnapCall

SpecSnap == InitSnap /\ [][NextSnap]_vars

\* ------------------------------------------------- the grid index on its own
Intervals(lo, hi) == {<<a, b>> \in (lo..hi) \X (lo..hi) : a <= b}
IndexBoxes ==
  {<<ix[1], iy[1], ix[2], iy[2]>> :
     ix \in Intervals(-MaxCoord, MaxCoord), iy \in Intervals(-1, 1)}

InitIndex ==
  /\ NumCPU = 1 /\ ppNumWorkers = 1 /\ BatchIdle /\ PipeIdle
  /\ \E cellSize \in 1..MaxCell : spatialIndex = NewSpatialIndex(cellSize)
  /\ call = NoCall
  /\ heap = <<>>

\* AddGeometry of a fresh polygon as record A (index 0) or B (index 1)
IndexAdd ==
  /\ call.fn = "none"
  /\ Len(spatialIndex.geometries) < 2
  /\ \E b \in IndexBoxes :
       /\ heap' = Alloc(heap, Poly(b), 0)
       /\ spatialIndex' = AddGeometry(spatialIndex, Alloc(heap, Poly(b), 0), NewHandle(heap),
                                      Len(spatialIndex.geometries), "p")
  /\ UNCHANGED <<NumCPU, call, bvars, pvars>>

IndexQuery ==
  /\ call.fn = "none"
  /\ \E i \in 1..Len(spatialIndex.geometries), distance \in 0..MaxDist :
       call' = [fn |-> "FindNeighbors", geom |-> spatialIndex.geometries[i].Geom,
                distance |-> distance,
                ret |-> FindNeighbors(spatialIndex, heap, spatialIndex.geometries[i].Geom,
                                      distance)]
  /\ spatialIndex' = IndexAfterQuery(spatialIndex)
  /\ UNCHANGED <<NumCPU, heap, bvars, pvars>>

NextIndex == IndexAdd \/ IndexQuery

SpecIndex == InitIndex /\ [][NextIndex]_vars

\* ------------------------------------------------- ProcessBatch on its own
\* the generic work function returns a result for the job, or nil
GenericResults(k) == {NilResult, [Index |-> k]}

InitBatch ==
  /\ NumCPU \in 1..MaxCPU
  /\ ppNumWorkers \in -1..MaxCPU
  /\ BatchIdle /\ PipeIdle
  /\ spatialIndex = NewSpatialIndex(1)
  /\ call = NoCall
  /\ heap = <<>>

\* `call` keeps the configured worker count and counts the nil results
BatchCall ==
  /\ pbpc = "idle"
  /\ \E n \in 0..MaxJobs : PBEnter(ppNumWorkers, [k \in 1..n |-> [Index |-> k]], "generic")
  /\ call' = [fn |-> "ProcessBatch", configured |-> ppNumWorkers, nils |-> 0]
  /\ UNCHANGED <<NumCPU, heap, spatialIndex, pvars>>

\* ---- C1: in every ProcessBatch call, for every worker count and interleaving,
\* no job's work function is invoked twice, and when ProcessBatch has returned
\* the work function has been invoked, and has returned, exactly once per job.
C1_ExactlyOnce ==
  /\ \A k \in DOMAIN calls : calls[k] <= 1 /\ done[k] <= calls[k]
  /\ pbpc = "returned" => \A k \in 1..Len(items) : calls[k] = 1 /\ done[k] = 1

C1_Witness ==
  pbpc = "returned" /\ Len(items) >= 2 /\ Cardinality(Workers) >= 2 /\ Len(results) = 1

\* ---- C11: when ProcessBatch has returned, the work function has completed
\* for every one of the N jobs, the tracker has counted N completions, and the
\* returned list holds one entry per job that did not return nil, each entry the
\* result of a different job (N entries when no call returned nil).
C11_NoPartialBatch ==
  (call.fn = "ProcessBatch" /\ pbpc = "returned") =>
    /\ \A k \in 1..Len(items) : done[k] = 1
    /\ Processed = Len(items)
    /\ \A w \in Workers : wst[w] # "work"
    /\ Len(results) = Len(items) - call.nils
    /\ \A i, j \in 1..Len(results) : results[i].Index = results[j].Index => i = j
    /\ \A i \in 1..Len(results) : results[i].Index \in 1..Len(items)

C11_Witness ==
  /\ call.fn = "ProcessBatch" /\ pbpc = "returned"
  /\ Len(items) = MaxJobs /\ call.nils = 0 /\ Len(results) = MaxJobs
  /\ Cardinality(Workers) >= 2
  /\ results[1].Index # 1

\* the work-function invocations in progress
InProgress == Cardinality({w \in Workers : wst[w] = "work"})

\* ---- C12: at every moment of a ProcessBatch call at most W work-function
\* invocations are in progress, W being the configured worker count, or the
\* number of CPUs when the configured value is <= 0.
C12_BoundedConcurrency ==
  call.fn = "ProcessBatch" =>
    InProgress <= (IF call.configured <= 0 THEN NumCPU ELSE call.configured)

C12_Witness ==
  /\ call.fn = "ProcessBatch" /\ call.configured <= 0 /\ NumCPU >= 2
  /\ InProgress = NumCPU /\ Len(items) > NumCPU

GenericWork(w) ==
  /\ workKind = "generic"
  /\ \E r \in GenericResults(wjob[w]) : WFinish(w, r)

rest == <<NumCPU, heap, spatialIndex, call, pvars>>

BatchSubmit == PBSubmit /\ UNCHANGED rest
BatchCloseJobs == PBCloseJobs /\ UNCHANGED rest
BatchCollect == PBCollect /\ UNCHANGED rest
BatchReturn == PBWaitReturn /\ UNCHANGED rest
BatchRecv == \E w \in Workers : WRecv(w) /\ UNCHANGED rest
BatchExit == \E w \in Workers : WExit(w) /\ UNCHANGED rest
BatchWork ==
  /\ \E w \in Workers : GenericWork(w)
  /\ call' = IF Results'[Len(Results')] = NilResult
               THEN [call EXCEPT !.nils = @ + 1] ELSE call
  /\ UNCHANGED <<NumCPU, heap, spatialIndex, pvars>>

NextBatch ==
  \/ BatchCall
  \/ BatchSubmit
  \/ BatchCloseJobs
  \/ BatchCollect
  \/ BatchReturn
  \/ BatchRecv
  \/ BatchExit
  \/ BatchWork

SpecBatch == InitBatch /\ [][NextBatch]_vars

\* ProcessBatch under a fair scheduler: a goroutine that can take its next step
\* eventually takes it, and every work-function call returns
BatchFairness ==
  /\ WF_vars(BatchSubmit) /\ WF_vars(BatchCloseJobs) /\ WF_vars(BatchCollect)
  /\ WF_vars(BatchReturn)
  /\ WF_vars(BatchRecv) /\ WF_vars(BatchExit) /\ WF_vars(BatchWork)

SpecBatchLive == SpecBatch /\ BatchFairness

\* ---- C35: in ProcessBatch the job queue is closed only when all N jobs have
\* been submitted and the results channel only when every worker has exited:
\* no submit is pending on a closed queue, no worker is left to send on a closed
\* results channel, and a closed queue receives no further job.
C35_CloseOrder ==
  call.fn = "ProcessBatch" =>
    /\ jqClosed => (sub = Len(items) /\ pbpc # "submit")
    /\ resClosed => (jqClosed /\ wg = 0 /\ \A w \in Workers : wst[w] = "exited")
    /\ resClosed => (got = Len(items) /\ Results = <<>>)
    /\ jqClosed => Len(JobQueue) + Cardinality({k \in DOMAIN calls : calls[k] > 0}) = Len(items)

\* both channels closed after a batch on two workers, one of which returned nil
C35_Witness ==
  /\ call.fn = "ProcessBatch" /\ jqClosed /\ resClosed
  /\ Len(items) >= 2 /\ Cardinality(Workers) >= 2 /\ call.nils = 1

\* the submitter is not at a full job queue, and no worker that has a result
\* to send is at a full results channel
NeverBlocked ==
  call.fn = "ProcessBatch" =>
    /\ (pbpc = "submit" /\ sub < Len(items)) => Len(JobQueue) < Len(items)
    /\ \A w \in Workers : wst[w] = "work" => Len(Results) < Len(items)

\* ---- C34: for every N >= 0 and W >= 1, when every work-function call
\* returns, a ProcessBatch call eventually returns, with every worker exited;
\* on the way the submitter never finds the job queue full and no worker finds
\* the results channel full.
C34_BatchTerminates ==
  /\ []NeverBlocked
  /\ (call.fn = "ProcessBatch") ~> (pbpc = "returned" /\ \A w \in Workers : wst[w] = "exited")

\* a returned batch of more jobs than workers, its queue having been full
C34_Witness ==
  /\ call.fn = "ProcessBatch" /\ pbpc = "returned"
  /\ Len(items) = MaxJobs /\ Cardinality(Workers) = 1
  /\ \A w \in Workers : wst[w] = "exited"

\* ------------------------------------------------- the cleaning pipeline
\* snapTolerance (CleanTopology, line 46), in the model's length unit
SnapTolerance == 100

\* roundFloat with PRECISION digits (polygon-utils.go, lines 146-153); the
\* model's length unit is a tenth of the last kept decimal digit, and
\* math.Round rounds half away from zero
RoundUnit == 10
roundFloat(v) ==
  IF v >= 0 THEN ((2 * v + RoundUnit) \div (2 * RoundUnit)) * RoundUnit
  ELSE -(((2 * (-v) + RoundUnit) \div (2 * RoundUnit)) * RoundUnit)

NoErr == "nil"
NoProps == "nil"
ZeroGeomFeature == [Geom |-> Nil, Properties |-> NoProps]

\* the features a request may carry: kind "bad" is a geometry the kernel cannot
\* parse, "empty" an empty polygon, "point" a non-polygon geometry
FeaturePool ==
  { [kind |-> "bad",   box |-> <<0, 0, 0, 0>>,       valid |-> FALSE, props |-> "pBad"],
    [kind |-> "empty", box |-> <<0, 0, 0, 0>>,       valid |-> TRUE,  props |-> "pEmpty"],
    [kind |-> "point", box |-> <<7, 7, 7, 7>>,       valid |-> TRUE,  props |-> "pPoint"],
    [kind |-> "poly",  box |-> <<-50, 0, 50, 100>>,  valid |-> TRUE,  props |-> "pA"],
    [kind |-> "poly",  box |-> <<55, 0, 155, 100>>,  valid |-> FALSE, props |-> "pB"] }

RECURSIVE SeqsUpTo(_, _)
SeqsUpTo(S, n) ==
  IF n = 0 THEN {<<>>}
  ELSE SeqsUpTo(S, n - 1) \cup {Append(q, x) : q \in {r \in SeqsUpTo(S, n - 1) : Len(r) = n - 1}, x \in S}

\* the orders in which a Go map may be iterated
Orders(S) == {f \in [1..Cardinality(S) -> S] : \A i, j \in 1..Cardinality(S) : f[i] = f[j] => i = j}

\* ---- Parse (parseGeometriesParallel)
\* jobs that give the i-th geometry the properties of the i-th feature from the end
ParsingJobsSwapProps(features) ==
  [i \in 1..Len(features) |->
     [Feature |-> [features[i] EXCEPT !.props = features[Len(features) + 1 - i].props],
      Index |-> i - 1]]

\* jobs[i] = ParsingJob{Feature: feature, Index: i}, lines 258-261
ParsingJobs(features) ==
  [i \in 1..Len(features) |-> [Feature |-> features[i], Index |-> i - 1]]

\* parseGeometry, lines 264-301: the heap and the ParsingResult
parseGeometry(h, job) ==
  IF job.Feature.kind = "bad"
    THEN [heap |-> h,
          result |-> [GeomFeature |-> ZeroGeomFeature, Index |-> 0, Error |-> "error creating geometry"]]
  ELSE LET g == [kind |-> job.Feature.kind, box |-> job.Feature.box, valid |-> job.Feature.valid]
           h1 == Alloc(h, g, job.Index + 1)
           geom == NewHandle(h)
       IN IF g.kind \in {"poly", "empty"}
            THEN IF g.kind = "empty"
                   THEN [heap |-> Destroy(h1, geom),
                         result |-> [GeomFeature |-> ZeroGeomFeature, Index |-> 0,
                                     Error |-> "skipping empty geometry"]]
                   ELSE [heap |-> h1,
                         result |-> [GeomFeature |-> [Geom |-> geom, Properties |-> job.Feature.props],
                                     Index |-> job.Index, Error |-> NoErr]]
            ELSE [heap |-> Destroy(h1, geom),
                  result |-> [GeomFeature |-> ZeroGeomFeature, Index |-> 0,
                              Error |-> "skipping non-polygon geometry"]]

\* a collection that keeps the record of every result
RECURSIVE CollectParsedAll(_)
CollectParsedAll(rs) ==
  IF rs = <<>> THEN <<>> ELSE <<Head(rs).GeomFeature>> \o CollectParsedAll(Tail(rs))

\* the collection of the valid results, lines 309-329, in the order of `results`
RECURSIVE CollectParsed(_)
CollectParsed(rs) ==
  IF rs = <<>> THEN <<>>
  ELSE (IF Head(rs).Error # NoErr THEN <<>> ELSE <<Head(rs).GeomFeature>>)
       \o CollectParsed(Tail(rs))

\* originals that are the parsed records themselves, not clones
CloneAllShares(h, gfs) == [heap |-> h, out |-> gfs]

\* ---- the clones of lines 59-68
RECURSIVE CloneAll(_, _)
CloneAll(h, gfs) ==
  IF gfs = <<>> THEN [heap |-> h, out |-> <<>>]
  ELSE IF Head(gfs).Geom = Nil
    THEN LET r == CloneAll(h, Tail(gfs))
         IN [heap |-> r.heap, out |-> <<ZeroGeomFeature>> \o r.out]
    ELSE LET r == CloneAll(Alloc(h, Geom(h, Head(gfs).Geom), h[Head(gfs).Geom].src), Tail(gfs))
         IN [heap |-> r.heap,
             out |-> <<[Geom |-> NewHandle(h), Properties |-> Head(gfs).Properties]>> \o r.out]

\* ---- Snap (snapBoundariesParallel)
\* jobs[i] = SnappingJob{...}, lines 344-352; every job points at the one index
SnappingJobs(gfs, tolerance) ==
  [i \in 1..Len(gfs) |-> [GeomFeature |-> gfs[i], Index |-> i - 1, Tolerance |-> tolerance]]

\* the loop of lines 383-403 over the neighbors in the order `nbrs`, the kernel
\* answering the k-th snap with ks[k]; `sup` collects the handles the record held
\* before an accepted snap
\* a fold that releases whatever handle an accepted snap replaces
ReleasesAny(snappedGeom, job) == TRUE

\* line 396: the replaced handle is released unless it is the job's own
\* (post-parse) geometry
ReleasesReplaced(snappedGeom, job) == snappedGeom # job.GeomFeature.Geom

RECURSIVE SnapFold(_, _, _, _, _, _, _, _)
SnapFold(h, job, snappedGeom, wasSnapped, sup, nbrs, ks, maxDistortion) ==
  IF nbrs = <<>>
    THEN [heap |-> h, geom |-> snappedGeom, wasSnapped |-> wasSnapped, sup |-> sup]
  ELSE IF Head(nbrs).Geom # Nil /\ Head(nbrs).Index # job.Index
    THEN LET r == conservativeSnap(h, snappedGeom, Head(nbrs).Geom, job.Tolerance,
                                   maxDistortion, Head(ks))
         IN IF r.ok /\ r.ret # snappedGeom
              THEN SnapFold(IF ReleasesReplaced(snappedGeom, job)
                              THEN Destroy(r.heap, snappedGeom) ELSE r.heap,
                            job, r.ret, TRUE, sup \cup {snappedGeom},
                            Tail(nbrs), Tail(ks), maxDistortion)
              ELSE SnapFold(r.heap, job, snappedGeom, wasSnapped, sup,
                            Tail(nbrs), Tail(ks), maxDistortion)
    ELSE SnapFold(h, job, snappedGeom, wasSnapped, sup, Tail(nbrs), Tail(ks), maxDistortion)

\* snapGeometry, lines 355-414, for the neighbors `nbrs` as FindNeighbors
\* returned them and the kernel's answers `ks`
snapGeometry(h, job, nbrs, ks) ==
  IF job.GeomFeature.Geom = Nil \/ nbrs = <<>>
    THEN [heap |-> h, sup |-> {},
          result |-> [GeomFeature |-> job.GeomFeature, Index |-> job.Index,
                      WasSnapped |-> FALSE, Error |-> NoErr]]
  ELSE LET r == SnapFold(h, job, job.GeomFeature.Geom, FALSE, {}, nbrs, ks,
                         job.Tolerance \div 10)
       IN [heap |-> r.heap, sup |-> r.sup,
           result |-> [GeomFeature |-> [Geom |-> r.geom, Properties |-> job.GeomFeature.Properties],
                       Index |-> job.Index, WasSnapped |-> r.wasSnapped, Error |-> NoErr]]

\* a collection that leaves the slot of a failed result empty
RECURSIVE PlaceByIndexSkipsErrors(_, _, _)
PlaceByIndexSkipsErrors(out, rs, fallback) ==
  IF rs = <<>> THEN out
  ELSE PlaceByIndexSkipsErrors(IF Head(rs).Error # NoErr THEN out
                                 ELSE [out EXCEPT ![Head(rs).Index + 1] = Head(rs).GeomFeature],
                               Tail(rs), fallback)

\* resultGeometries[result.Index] = ..., lines 423-440 and 532-549
RECURSIVE PlaceByIndex(_, _, _)
PlaceByIndex(out, rs, fallback) ==
  IF rs = <<>> THEN out
  ELSE PlaceByIndex([out EXCEPT ![Head(rs).Index + 1] =
                       IF fallback # <<>> /\ Head(rs).Error # NoErr
                         THEN fallback[Head(rs).Index + 1]
                         ELSE Head(rs).GeomFeature],
                    Tail(rs), fallback)

\* ---- Validate & Repair (validateAndRepairGeometriesParallel)
ValidationJobs(gfs) ==
  [i \in 1..Len(gfs) |-> [GeomFeature |-> gfs[i], Index |-> i - 1]]

\* geom.IsValid()
IsValid(g) == g.valid

\* geom.MakeValidWithParams(...): a valid geometry of the same extent
MakeValid(g) == [g EXCEPT !.valid = TRUE]

\* a ring whose coordinates fell together: geos.NewPolygon builds it, IsValid
\* rejects it
Collapsed(b) == b[1] = b[3] \/ b[2] = b[4]

\* TruncateSinglePolygon: every ring coordinate rounded
TruncateSinglePolygon(g) ==
  LET b == <<roundFloat(g.box[1]), roundFloat(g.box[2]),
             roundFloat(g.box[3]), roundFloat(g.box[4])>>
  IN [g EXCEPT !.box = b, !.valid = g.valid /\ ~Collapsed(b)]

\* TruncateFullGeometry, polygon-utils.go lines 32-101, of a single geometry: an
\* invalid geometry and one of another type than polygon are not counted and
\* the call fails with "no valid polygons found"
TruncateFullGeometry(h, feature) ==
  IF feature = Nil THEN [heap |-> h, geom |-> Nil, err |-> "geometry is nil"]
  ELSE IF ~IsValid(Geom(h, feature)) \/ Geom(h, feature).kind # "poly"
    THEN [heap |-> h, geom |-> Nil, err |-> "no valid polygons found"]
  ELSE [heap |-> Alloc(h, TruncateSinglePolygon(Geom(h, feature)), h[feature].src),
        geom |-> NewHandle(h), err |-> NoErr]

\* what MakeValidWithParams(MakeValidLinework, MakeValidDiscardCollapsed) can
\* return for an invalid polygon: nil, a valid polygon, or valid linework of
\* another type
RepairOutcomes == {"nil", "polygon", "other"}

\* the geometry MakeValidWithParams returns when it is not nil
Repaired(g, outcome) ==
  IF outcome = "other" THEN [MakeValid(g) EXCEPT !.kind = "point"] ELSE MakeValid(g)

\* a failed result that hands back the record as it came in
FailedResultOriginal(job, geom, wasRepaired, err) ==
  [GeomFeature |-> job.GeomFeature, Index |-> job.Index,
   WasRepaired |-> wasRepaired, Error |-> err]

\* the result of lines 497-507: the geometry as it is after the repair step
FailedResult(job, geom, wasRepaired, err) ==
  [GeomFeature |-> [Geom |-> geom, Properties |-> job.GeomFeature.Properties],
   Index |-> job.Index, WasRepaired |-> wasRepaired, Error |-> err]

\* validateGeometry, lines 467-523; `repairs` is the outcome of MakeValid
validateGeometry(h, job, repairs) ==
  IF job.GeomFeature.Geom = Nil
    THEN [heap |-> h,
          result |-> [GeomFeature |-> job.GeomFeature, Index |-> job.Index,
                      WasRepaired |-> FALSE, Error |-> "nil geometry"]]
  ELSE LET geom0 == job.GeomFeature.Geom
           repaired == ~IsValid(Geom(h, geom0)) /\ repairs # "nil"
           h1 == IF repaired
                   THEN Destroy(Alloc(h, Repaired(Geom(h, geom0), repairs), h[geom0].src), geom0)
                   ELSE h
           geom == IF repaired THEN NewHandle(h) ELSE geom0
           t == TruncateFullGeometry(h1, geom)
       IN IF t.err # NoErr
            THEN [heap |-> t.heap, result |-> FailedResult(job, geom, repaired, t.err)]
            ELSE [heap |-> IF t.geom # geom THEN Destroy(t.heap, geom) ELSE t.heap,
                  result |-> [GeomFeature |-> [Geom |-> t.geom, Properties |-> job.GeomFeature.Properties],
                              Index |-> job.Index, WasRepaired |-> repaired, Error |-> NoErr]]

\* ---- Coverage (validateCoverageParallel)
\* the pair jobs of lines 814-833
RECURSIVE PairsFrom(_, _, _, _)
PairsFrom(gfs, i, j, tolerance) ==
  IF i > Len(gfs) THEN <<>>
  ELSE IF gfs[i].Geom = Nil \/ j > Len(gfs) THEN PairsFrom(gfs, i + 1, i + 2, tolerance)
  ELSE (IF gfs[j].Geom = Nil THEN <<>>
        ELSE <<[GeomI |-> gfs[i].Geom, GeomJ |-> gfs[j].Geom, IndexI |-> i - 1,
                IndexJ |-> j - 1, Tolerance |-> tolerance]>>)
       \o PairsFrom(gfs, i, j + 1, tolerance)

\* a job list that holds every pair twice
CoverageJobsTwice(gfs, tolerance) ==
  PairsFrom(gfs, 1, 2, tolerance) \o PairsFrom(gfs, 1, 2, tolerance)

CoverageJobs(gfs, tolerance) == PairsFrom(gfs, 1, 2, tolerance)

\* the extent two boxes share along one axis
Shared(a1, a2, b1, b2) == Max(0, Min(a2, b2) - Max(a1, b1))

\* geomI.Intersection(geomJ).Area()
IntersectionArea(a, b) ==
  Shared(MinX(a), MaxX(a), MinX(b), MaxX(b)) * Shared(MinY(a), MaxY(a), MinY(b), MaxY(b))

\* geomI.Overlaps(geomJ): the interiors meet and neither contains the other
Overlaps(a, b) ==
  /\ IntersectionArea(a, b) > 0
  /\ IntersectionArea(a, b) # Area(a)
  /\ IntersectionArea(a, b) # Area(b)

\* the distance as a number: exact for boxes facing each other along an axis,
\* rounded down otherwise
Distance(a, b) ==
  CHOOSE d \in 0..(Gap(MinX(a), MaxX(a), MinX(b), MaxX(b)) + Gap(MinY(a), MaxY(a), MinY(b), MaxY(b))) :
    d * d <= DistanceSq(a, b) /\ (d + 1) * (d + 1) > DistanceSq(a, b)

\* box a lies in the interior of box b
Inside(a, b) ==
  /\ MinX(b) < MinX(a) /\ MaxX(a) < MaxX(b)
  /\ MinY(b) < MinY(a) /\ MaxY(a) < MaxY(b)

\* the least distance between the sides of a box and those of a box around it
Clearance(a, b) ==
  Min(Min(MinX(a) - MinX(b), MaxX(b) - MaxX(a)), Min(MinY(a) - MinY(b), MaxY(b) - MaxY(a)))

\* a ring distance that looks for the first polygon inside the second only
BoundaryDistanceOneWay(a, b) ==
  IF Inside(a, b) THEN Clearance(a, b)
  ELSE IF IntersectionArea(a, b) > 0 THEN 0
  ELSE Distance(a, b)

\* geomI.Boundary().Distance(geomJ.Boundary()), lines 721-738: the distance of
\* the two rings, which is not 0 when one polygon lies in the other's interior
BoundaryDistance(a, b) ==
  IF Inside(a, b) THEN Clearance(a, b)
  ELSE IF Inside(b, a) THEN Clearance(b, a)
  ELSE IF IntersectionArea(a, b) > 0 THEN 0
  ELSE Distance(a, b)

\* bufferI.Intersection(bufferJ).Area(), lines 745-768, of the two rings each
\* buffered by tolerance*2: for boxes apart it is where the boxes grown by
\* tolerance*2 meet; for a box inside another the two bands meet along the
\* nearest sides when these are less than tolerance*4 apart
BufferedBoundariesArea(a, b, tolerance) ==
  IF Inside(a, b)
    THEN Max(0, tolerance * 4 - Clearance(a, b)) * Min(MaxX(a) - MinX(a), MaxY(a) - MinY(a))
  ELSE IF Inside(b, a)
    THEN Max(0, tolerance * 4 - Clearance(b, a)) * Min(MaxX(b) - MinX(b), MaxY(b) - MinY(b))
  ELSE IntersectionArea([a EXCEPT !.box = BufferBounds(a, tolerance * 2)],
                        [b EXCEPT !.box = BufferBounds(b, tolerance * 2)])

\* analyzeBoundaryGaps, lines 719-789
analyzeBoundaryGaps(a, b, tolerance) ==
  LET distance == BoundaryDistance(a, b)
  IN IF distance <= tolerance \/ distance > tolerance * 50
       THEN [hasGap |-> FALSE, distance |-> distance, width |-> 0, gaps |-> 0]
     ELSE IF BufferedBoundariesArea(a, b, tolerance) > tolerance * tolerance
       THEN [hasGap |-> TRUE, distance |-> distance, width |-> distance, gaps |-> 1]
     ELSE [hasGap |-> FALSE, distance |-> distance, width |-> 0, gaps |-> 0]

\* line 888: the condition under which validatePair calls analyzeBoundaryGaps
InvokesGapAnalysis(a, b, tolerance) == Distance(a, b) <= tolerance * 50

\* validatePair, lines 851-902
validatePair(h, job) ==
  LET a == Geom(h, job.GeomI)
      b == Geom(h, job.GeomJ)
      distance == Distance(a, b)
      overlap == Overlaps(a, b) /\ IntersectionArea(a, b) > job.Tolerance * job.Tolerance
      gap == IF InvokesGapAnalysis(a, b, job.Tolerance)
               THEN analyzeBoundaryGaps(a, b, job.Tolerance)
               ELSE [hasGap |-> FALSE, distance |-> distance, width |-> 0, gaps |-> 0]
  IN [IndexI |-> job.IndexI, IndexJ |-> job.IndexJ,
      HasOverlap |-> overlap,
      OverlapArea |-> IF overlap THEN IntersectionArea(a, b) ELSE 0,
      HasGap |-> gap.hasGap,
      GapDistance |-> IF gap.hasGap THEN gap.distance ELSE distance,
      MaxGapWidth |-> IF gap.hasGap THEN gap.width ELSE 0,
      BoundaryGaps |-> IF gap.hasGap THEN gap.gaps ELSE 0,
      Error |-> NoErr]

\* an aggregation that counts every result as an overlap
AggregateCountsAll(report, rs) == [report EXCEPT !.OverlapCount = Len(rs)]

\* the aggregation of lines 919-961
RECURSIVE Aggregate(_, _)
Aggregate(report, rs) ==
  IF rs = <<>> THEN report
  ELSE LET r == Head(rs)
           r1 == IF r.HasOverlap
                   THEN [report EXCEPT !.OverlapCount = @ + 1, !.OverlapArea = @ + r.OverlapArea]
                   ELSE report
           r2 == IF r.HasGap
                   THEN [r1 EXCEPT !.GapCount = @ + 1, !.BoundaryGaps = @ + r.BoundaryGaps,
                                   !.TotalGapLength = @ + r.GapDistance,
                                   !.MaxGapWidth = Max(@, r.MaxGapWidth)]
                   ELSE r1
       IN Aggregate(IF r.Error # NoErr THEN report ELSE r2, Tail(rs))

\* ---- Serialize, lines 113-129
\* geom.ToGeoJSON(-1): the type and the coordinates of the geometry
ToGeoJSON(g) == [type |-> "Polygon", coordinates |-> g.box]

\* a serialization that emits a feature with a null geometry for a nil record
RECURSIVE SerializeKeepsNil(_, _)
SerializeKeepsNil(h, gfs) ==
  IF gfs = <<>> THEN <<>>
  ELSE <<[Type |-> "Feature", Properties |-> Head(gfs).Properties,
          Geometry |-> IF Head(gfs).Geom # Nil THEN ToGeoJSON(Geom(h, Head(gfs).Geom))
                       ELSE [type |-> "null", coordinates |-> <<0, 0, 0, 0>>],
          src |-> IF Head(gfs).Geom # Nil THEN h[Head(gfs).Geom].src ELSE 0]>>
       \o SerializeKeepsNil(h, Tail(gfs))

\* an output feature; src is history: the input feature its geometry derives from
RECURSIVE Serialize(_, _)
Serialize(h, gfs) ==
  IF gfs = <<>> THEN <<>>
  ELSE (IF Head(gfs).Geom # Nil
          THEN <<[Type |-> "Feature", Properties |-> Head(gfs).Properties,
                  Geometry |-> ToGeoJSON(Geom(h, Head(gfs).Geom)),
                  src |-> h[Head(gfs).Geom].src]>>
          ELSE <<>>)
       \o Serialize(h, Tail(gfs))

\* the clean-up of lines 107-111
RECURSIVE DestroyAll(_, _)
DestroyAll(h, gfs) ==
  IF gfs = <<>> THEN h
  ELSE DestroyAll(IF Head(gfs).Geom # Nil THEN Destroy(h, Head(gfs).Geom) ELSE h, Tail(gfs))

\* ------------------------------------------------- the request goroutine
Payloads ==
  {[kind |-> "empty", features |-> <<>>], [kind |-> "malformed", features |-> <<>>]}
  \cup {[kind |-> "ok", features |-> fs] : fs \in SeqsUpTo(FeaturePool, MaxFeatures)}

Init ==
  /\ NumCPU \in 1..MaxCPU
  /\ ppNumWorkers = 0
  /\ BatchIdle
  /\ heap = <<>>
  /\ spatialIndex = NewSpatialIndex(1)
  /\ call = NoCall
  /\ payload \in Payloads
  /\ pc = "h_start" /\ idx = 0
  /\ geomFeatures = <<>> /\ originalGeomFeatures = <<>>
  /\ cleanedGeometries = <<>> /\ validatedGeometries = <<>>
  /\ coverageReport = ZeroReport
  /\ ctRet = NotReturned /\ wsRet = NotReturned /\ response = NotReturned
  /\ crashed = FALSE /\ faults = {} /\ recovered = {}
  /\ stageLog = [s \in Stages |-> [jobs |-> 0, started |-> 0, finished |-> 0]]
  /\ superseded = {}

bvarsNoPc == <<ppNumWorkers, items, workKind, sub, JobQueue, jqClosed, Results,
               resClosed, wst, wjob, results, got, Processed, wg, calls, done>>

\* a panic unwinds the goroutine's deferred calls; without a recover() among
\* them the Go runtime terminates the process
Recovers(deferred) == \E i \in DOMAIN deferred : deferred[i] = "recover"
\* worker, line 54
WorkerDeferred == <<"wg.Done">>
\* CleanTopology, lines 26-30
CleanTopologyDeferred == <<"recover">>

\* a function without named results that recovers a panic returns zero values
NilCleaningResult == [nil |-> TRUE]
ZeroReturn == [returned |-> TRUE, result |-> NilCleaningResult, err |-> NoErr]

\* cleanTopologyHandler, lines 289-335, a direct JSON request
HStart ==
  /\ ~crashed
  /\ pc = "h_start"
  /\ IF payload.kind = "empty"
       THEN /\ response' = [returned |-> TRUE, status |-> 200, body |-> "ERROR: Empty request body"]
            /\ pc' = "done"
       ELSE /\ pc' = "ct_unmarshal"
            /\ UNCHANGED response
  /\ UNCHANGED <<NumCPU, heap, spatialIndex, call, bvars, payload, idx, geomFeatures,
                 originalGeomFeatures, cleanedGeometries, validatedGeometries,
                 coverageReport, ctRet, wsRet, crashed, faults, recovered, stageLog,
                 superseded>>

\* a CleanTopology that goes on whatever json.Unmarshal returned
CTUnmarshalLenient ==
  /\ ~crashed
  /\ pc = "ct_unmarshal"
  /\ spatialIndex' = NewSpatialIndex(SnapTolerance * 100)
  /\ pc' = "ct_parse"
  /\ UNCHANGED <<NumCPU, heap, call, bvars, payload, idx, geomFeatures,
                 originalGeomFeatures, cleanedGeometries, validatedGeometries,
                 coverageReport, ctRet, wsRet, response, crashed, faults, recovered,
                 stageLog, superseded>>

\* CleanTopology, lines 34-50
CTUnmarshal ==
  /\ ~crashed
  /\ pc = "ct_unmarshal"
  /\ IF payload.kind = "malformed"
       THEN /\ ctRet' = [returned |-> TRUE, result |-> NilCleaningResult,
                         err |-> "failed to parse feature collection"]
            /\ pc' = "ws_resume"
            /\ UNCHANGED spatialIndex
       ELSE /\ spatialIndex' = NewSpatialIndex(SnapTolerance * 100)
            /\ pc' = "ct_parse"
            /\ UNCHANGED ctRet
  /\ UNCHANGED <<NumCPU, heap, call, bvars, payload, idx, geomFeatures,
                 originalGeomFeatures, cleanedGeometries, validatedGeometries,
                 coverageReport, wsRet, response, crashed, faults, recovered, stageLog,
                 superseded>>

\* the call of a parallel stage: an empty input returns before any batch
StageCall(stage, jobs) ==
  /\ PBEnter(NumCPU, jobs, stage)
  /\ stageLog' = [stageLog EXCEPT ![stage].jobs = Len(jobs)]

\* CleanTopology line 53, parseGeometriesParallel lines 249-304
CTParseCall ==
  /\ ~crashed
  /\ pc = "ct_parse"
  /\ IF Len(payload.features) = 0
       THEN /\ pc' = "ct_clone"
            /\ UNCHANGED <<bvars, stageLog>>
       ELSE /\ StageCall("parse", ParsingJobs(payload.features))
            /\ pc' = "parse_wait"
  /\ UNCHANGED <<NumCPU, heap, spatialIndex, call, payload, idx, geomFeatures,
                 originalGeomFeatures, cleanedGeometries, validatedGeometries,
                 coverageReport, ctRet, wsRet, response, crashed, faults, recovered,
                 superseded>>

\* parseGeometriesParallel lines 304-329
CTParseCollect ==
  /\ ~crashed
  /\ pc = "parse_wait"
  /\ pbpc = "returned"
  /\ geomFeatures' = CollectParsed(results)
  /\ pbpc' = "idle"
  /\ pc' = "ct_clone"
  /\ UNCHANGED <<NumCPU, heap, spatialIndex, call, bvarsNoPc, payload, idx,
                 originalGeomFeatures, cleanedGeometries, validatedGeometries,
                 coverageReport, ctRet, wsRet, response, crashed, faults, recovered,
                 stageLog, superseded>>

\* CleanTopology lines 59-68
CTClone ==
  /\ ~crashed
  /\ pc = "ct_clone"
  /\ heap' = CloneAll(heap, geomFeatures).heap
  /\ originalGeomFeatures' = CloneAll(heap, geomFeatures).out
  /\ idx' = 0
  /\ pc' = "ct_index"
  /\ UNCHANGED <<NumCPU, spatialIndex, call, bvars, payload, geomFeatures,
                 cleanedGeometries, validatedGeometries, coverageReport, ctRet, wsRet,
                 response, crashed, faults, recovered, stageLog, superseded>>

\* CleanTopology lines 71-73: one AddGeometry
CTIndexAdd ==
  /\ ~crashed
  /\ pc = "ct_index"
  /\ idx < Len(geomFeatures)
  /\ spatialIndex' = AddGeometry(spatialIndex, heap, geomFeatures[idx + 1].Geom, idx,
                                 geomFeatures[idx + 1].Properties)
  /\ idx' = idx + 1
  /\ UNCHANGED <<NumCPU, heap, call, bvars, payload, pc, geomFeatures,
                 originalGeomFeatures, cleanedGeometries, validatedGeometries,
                 coverageReport, ctRet, wsRet, response, crashed, faults, recovered,
                 stageLog, superseded>>

\* the index loop has ended
CTIndexDone ==
  /\ ~crashed
  /\ pc = "ct_index"
  /\ idx = Len(geomFeatures)
  /\ pc' = "ct_snap"
  /\ UNCHANGED <<NumCPU, heap, spatialIndex, call, bvars, payload, idx, geomFeatures,
                 originalGeomFeatures, cleanedGeometries, validatedGeometries,
                 coverageReport, ctRet, wsRet, response, crashed, faults, recovered,
                 stageLog, superseded>>

\* CleanTopology line 79, snapBoundariesParallel lines 333-417
CTSnapCall ==
  /\ ~crashed
  /\ pc = "ct_snap"
  /\ IF Len(geomFeatures) = 0
       THEN /\ pc' = "ct_validate"
            /\ UNCHANGED <<bvars, stageLog>>
       ELSE /\ StageCall("snap", SnappingJobs(geomFeatures, SnapTolerance))
            /\ pc' = "snap_wait"
  /\ UNCHANGED <<NumCPU, heap, spatialIndex, call, payload, idx, geomFeatures,
                 originalGeomFeatures, cleanedGeometries, validatedGeometries,
                 coverageReport, ctRet, wsRet, response, crashed, faults, recovered,
                 superseded>>

\* snapBoundariesParallel lines 417-443
CTSnapCollect ==
  /\ ~crashed
  /\ pc = "snap_wait"
  /\ pbpc = "returned"
  /\ cleanedGeometries' =
       PlaceByIndex([i \in 1..Len(geomFeatures) |-> ZeroGeomFeature], results, geomFeatures)
  /\ pbpc' = "idle"
  /\ pc' = "ct_validate"
  /\ UNCHANGED <<NumCPU, heap, spatialIndex, call, bvarsNoPc, payload, idx, geomFeatures,
                 originalGeomFeatures, validatedGeometries, coverageReport, ctRet, wsRet,
                 response, crashed, faults, recovered, stageLog, superseded>>

\* CleanTopology line 86, validateAndRepairGeometriesParallel lines 447-526
CTValidateCall ==
  /\ ~crashed
  /\ pc = "ct_validate"
  /\ IF Len(cleanedGeometries) = 0
       THEN /\ pc' = "ct_coverage"
            /\ UNCHANGED <<bvars, stageLog>>
       ELSE /\ StageCall("validate", ValidationJobs(cleanedGeometries))
            /\ pc' = "validate_wait"
  /\ UNCHANGED <<NumCPU, heap, spatialIndex, call, payload, idx, geomFeatures,
                 originalGeomFeatures, cleanedGeometries, validatedGeometries,
                 coverageReport, ctRet, wsRet, response, crashed, faults, recovered,
                 superseded>>

\* validateAndRepairGeometriesParallel lines 526-553
CTValidateCollect ==
  /\ ~crashed
  /\ pc = "validate_wait"
  /\ pbpc = "returned"
  /\ validatedGeometries' =
       PlaceByIndex([i \in 1..Len(cleanedGeometries) |-> ZeroGeomFeature], results, <<>>)
  /\ pbpc' = "idle"
  /\ pc' = "ct_coverage"
  /\ UNCHANGED <<NumCPU, heap, spatialIndex, call, bvarsNoPc, payload, idx, geomFeatures,
                 originalGeomFeatures, cleanedGeometries, coverageReport, ctRet, wsRet,
                 response, crashed, faults, recovered, stageLog, superseded>>

\* CleanTopology line 93, validateCoverageParallel lines 792-905
CTCoverageCall ==
  /\ ~crashed
  /\ pc = "ct_coverage"
  /\ IF Len(validatedGeometries) <= 1 \/ CoverageJobs(validatedGeometries, SnapTolerance) = <<>>
       THEN /\ coverageReport' = ZeroReport
            /\ pc' = "ct_preserve"
            /\ UNCHANGED <<bvars, stageLog>>
       ELSE /\ StageCall("coverage", CoverageJobs(validatedGeometries, SnapTolerance))
            /\ pc' = "coverage_wait"
            /\ UNCHANGED coverageReport
  /\ UNCHANGED <<NumCPU, heap, spatialIndex, call, payload, idx, geomFeatures,
                 originalGeomFeatures, cleanedGeometries, validatedGeometries, ctRet,
                 wsRet, response, crashed, faults, recovered, superseded>>

\* validateCoverageParallel lines 905-967
CTCoverageCollect ==
  /\ ~crashed
  /\ pc = "coverage_wait"
  /\ pbpc = "returned"
  /\ coverageReport' = Aggregate(ZeroReport, results)
  /\ pbpc' = "idle"
  /\ pc' = "ct_preserve"
  /\ UNCHANGED <<NumCPU, heap, spatialIndex, call, bvarsNoPc, payload, idx, geomFeatures,
                 originalGeomFeatures, cleanedGeometries, validatedGeometries, ctRet,
                 wsRet, response, crashed, faults, recovered, stageLog, superseded>>

\* CleanTopology lines 99-111: the boundary-preservation audit (read-only) and
\* the release of the clones
CTPreserve ==
  /\ ~crashed
  /\ pc = "ct_preserve"
  /\ heap' = DestroyAll(heap, originalGeomFeatures)
  /\ pc' = "ct_serialize"
  /\ UNCHANGED <<NumCPU, spatialIndex, call, bvars, payload, idx, geomFeatures,
                 originalGeomFeatures, cleanedGeometries, validatedGeometries,
                 coverageReport, ctRet, wsRet, response, crashed, faults, recovered,
                 stageLog, superseded>>

\* CleanTopology lines 113-132
CTSerialize ==
  /\ ~crashed
  /\ pc = "ct_serialize"
  /\ ctRet' = [returned |-> TRUE,
               result |-> [nil |-> FALSE, Type |-> "FeatureCollection",
                           Features |-> Serialize(heap, validatedGeometries)],
               err |-> NoErr]
  /\ pc' = "ws_resume"
  /\ UNCHANGED <<NumCPU, heap, spatialIndex, call, bvars, payload, idx, geomFeatures,
                 originalGeomFeatures, cleanedGeometries, validatedGeometries,
                 coverageReport, wsRet, response, crashed, faults, recovered, stageLog,
                 superseded>>

\* the places where CleanTopology's own goroutine calls the kernel
KernelPcs == {"ct_clone", "ct_index", "ct_preserve", "ct_serialize"}

\* what CleanTopology returns after its deferred function (lines 26-30) ran for
\* a panic: the zero values of its unnamed results
CleanTopologyAfterPanic == ZeroReturn

\* a kernel call made by CleanTopology's own goroutine panics (there is a
\* geometry to call the kernel on)
CTPanic ==
  /\ ~crashed
  /\ pc \in KernelPcs
  /\ geomFeatures # <<>>
  /\ faults' = faults \cup {"request"}
  /\ IF Recovers(CleanTopologyDeferred)
       THEN /\ recovered' = recovered \cup {"CleanTopology"}
            /\ ctRet' = CleanTopologyAfterPanic
            /\ pc' = "ws_resume"
            /\ UNCHANGED crashed
       ELSE /\ crashed' = TRUE
            /\ UNCHANGED <<recovered, ctRet, pc>>
  /\ UNCHANGED <<NumCPU, heap, spatialIndex, call, bvars, payload, idx, geomFeatures,
                 originalGeomFeatures, cleanedGeometries, validatedGeometries,
                 coverageReport, wsRet, response, stageLog, superseded>>

\* CleanTopologyWithShapefile, lines 136-176; result.Features on a nil result is
\* a nil dereference, recovered by the deferred function of lines 138-142.
\* GenerateShapefileZip fails when the file system does (zipOK = FALSE) and,
\* in generateShapefile, when there is no feature to write; `io` is history:
\* the file system worked.
CleanTopologyWithShapefile(ct, zipOK) ==
  IF ct.err # NoErr
    THEN [returned |-> TRUE, zip |-> "nil", err |-> "topology cleaning failed",
          panicked |-> FALSE, io |-> zipOK]
  ELSE IF ct.result.nil
    THEN [returned |-> TRUE, zip |-> "nil", err |-> NoErr, panicked |-> TRUE, io |-> zipOK]
  ELSE IF zipOK /\ ct.result.Features # <<>>
    THEN [returned |-> TRUE, zip |-> "zip", err |-> NoErr, panicked |-> FALSE, io |-> zipOK]
  ELSE [returned |-> TRUE, zip |-> "nil", err |-> "failed to generate shapefile zip",
        panicked |-> FALSE, io |-> zipOK]

WSResume ==
  /\ ~crashed
  /\ pc = "ws_resume"
  /\ \E zipOK \in BOOLEAN :
       /\ wsRet' = CleanTopologyWithShapefile(ctRet, zipOK)
       /\ IF CleanTopologyWithShapefile(ctRet, zipOK).panicked
            THEN /\ faults' = faults \cup {"request"}
                 /\ recovered' = recovered \cup {"CleanTopologyWithShapefile"}
            ELSE UNCHANGED <<faults, recovered>>
  /\ pc' = "h_resume"
  /\ UNCHANGED <<NumCPU, heap, spatialIndex, call, bvars, payload, idx, geomFeatures,
                 originalGeomFeatures, cleanedGeometries, validatedGeometries,
                 coverageReport, ctRet, response, crashed, stageLog, superseded>>

\* cleanTopologyHandler, lines 335-345
HandlerResponse(ws) ==
  IF ws.err # NoErr
    THEN [returned |-> TRUE, status |-> 500, body |-> "ERROR: Topology cleaning failed"]
    ELSE [returned |-> TRUE, status |-> 200, body |-> ws.zip]

HRespond ==
  /\ ~crashed
  /\ pc = "h_resume"
  /\ response' = HandlerResponse(wsRet)
  /\ pc' = "done"
  /\ UNCHANGED <<NumCPU, heap, spatialIndex, call, bvars, payload, idx, geomFeatures,
                 originalGeomFeatures, cleanedGeometries, validatedGeometries,
                 coverageReport, ctRet, wsRet, crashed, faults, recovered, stageLog,
                 superseded>>

\* ------------------------------------------------- the workers of a stage
LogStarted == [stageLog EXCEPT ![workKind].started = @ + 1]
LogFinished == [stageLog EXCEPT ![workKind].finished = @ + 1]

PipeSubmit == ~crashed /\ pc # "none" /\ PBSubmit /\ UNCHANGED rest
PipeCloseJobs == ~crashed /\ pc # "none" /\ PBCloseJobs /\ UNCHANGED rest
PipeCollect == ~crashed /\ pc # "none" /\ PBCollect /\ UNCHANGED rest
PipeReturn == ~crashed /\ pc # "none" /\ PBWaitReturn /\ UNCHANGED rest

PipeRecv ==
  /\ ~crashed
  /\ \E w \in Workers :
       /\ WRecv(w)
       /\ stageLog' = LogStarted
  /\ UNCHANGED <<NumCPU, heap, spatialIndex, call, payload, pc, idx, geomFeatures,
                 originalGeomFeatures, cleanedGeometries, validatedGeometries,
                 coverageReport, ctRet, wsRet, response, crashed, faults, recovered,
                 superseded>>

PipeExit ==
  /\ ~crashed
  /\ pc # "none"
  /\ \E w \in Workers : WExit(w)
  /\ UNCHANGED rest

\* a worker runs parseGeometry to its end
ParseWork ==
  /\ ~crashed
  /\ workKind = "parse"
  /\ \E w \in Workers :
       /\ wst[w] = "work"
       /\ WFinish(w, parseGeometry(heap, items[wjob[w]]).result)
       /\ heap' = parseGeometry(heap, items[wjob[w]]).heap
  /\ stageLog' = LogFinished
  /\ UNCHANGED <<NumCPU, spatialIndex, call, payload, pc, idx, geomFeatures,
                 originalGeomFeatures, cleanedGeometries, validatedGeometries,
                 coverageReport, ctRet, wsRet, response, crashed, faults, recovered,
                 superseded>>

\* the search radius of line 370
SearchRadius(tolerance) == tolerance * 5

\* a worker runs snapGeometry to its end
SnapWork ==
  /\ ~crashed
  /\ workKind = "snap"
  /\ \E w \in Workers :
       /\ wst[w] = "work"
       /\ LET job == items[wjob[w]]
              found == IF job.GeomFeature.Geom = Nil THEN {}
                       ELSE FindNeighbors(spatialIndex, heap, job.GeomFeature.Geom,
                                          SearchRadius(job.Tolerance))
          IN \E nbrs \in Orders(found) :
               \E ks \in [1..Len(nbrs) -> SnapChoices(job.Tolerance)] :
                 /\ WFinish(w, snapGeometry(heap, job, nbrs, ks).result)
                 /\ heap' = snapGeometry(heap, job, nbrs, ks).heap
                 /\ superseded' = superseded \cup snapGeometry(heap, job, nbrs, ks).sup
  /\ spatialIndex' = IndexAfterQuery(spatialIndex)
  /\ stageLog' = LogFinished
  /\ UNCHANGED <<NumCPU, call, payload, pc, idx, geomFeatures,
                 originalGeomFeatures, cleanedGeometries, validatedGeometries,
                 coverageReport, ctRet, wsRet, response, crashed, faults, recovered>>

\* a worker runs validateGeometry to its end
ValidateWork ==
  /\ ~crashed
  /\ workKind = "validate"
  /\ \E w \in Workers :
       /\ wst[w] = "work"
       /\ \E repairs \in RepairOutcomes :
            /\ WFinish(w, validateGeometry(heap, items[wjob[w]], repairs).result)
            /\ heap' = validateGeometry(heap, items[wjob[w]], repairs).heap
  /\ stageLog' = LogFinished
  /\ UNCHANGED <<NumCPU, spatialIndex, call, payload, pc, idx, geomFeatures,
                 originalGeomFeatures, cleanedGeometries, validatedGeometries,
                 coverageReport, ctRet, wsRet, response, crashed, faults, recovered,
                 superseded>>

\* a worker runs validatePair to its end
CoverageWork ==
  /\ ~crashed
  /\ workKind = "coverage"
  /\ \E w \in Workers :
       /\ wst[w] = "work"
       /\ WFinish(w, validatePair(heap, items[wjob[w]]))
  /\ stageLog' = LogFinished
  /\ UNCHANGED <<NumCPU, heap, spatialIndex, call, payload, pc, idx, geomFeatures,
                 originalGeomFeatures, cleanedGeometries, validatedGeometries,
                 coverageReport, ctRet, wsRet, response, crashed, faults, recovered,
                 superseded>>

\* a kernel call inside a work function panics on the worker's goroutine: the
\* deferred wg.Done() runs, and without a recover() the process terminates
WorkerPanic ==
  /\ ~crashed
  /\ workKind \in Stages
  /\ \E w \in Workers :
       /\ wst[w] = "work"
       /\ wst' = [wst EXCEPT ![w] = "exited"]
       /\ wg' = wg - 1
  /\ faults' = faults \cup {"worker"}
  /\ crashed' = ~Recovers(WorkerDeferred)
  /\ UNCHANGED <<NumCPU, heap, spatialIndex, call, ppNumWorkers, items, workKind, pbpc,
                 sub, JobQueue, jqClosed, Results, resClosed, wjob, results, got,
                 Processed, calls, done, payload, pc, idx, geomFeatures,
                 originalGeomFeatures, cleanedGeometries, validatedGeometries,
                 coverageReport, ctRet, wsRet, response, recovered, stageLog, superseded>>

Next ==
  \/ HStart
  \/ CTUnmarshal
  \/ CTParseCall
  \/ CTParseCollect
  \/ CTClone
  \/ CTIndexAdd
  \/ CTIndexDone
  \/ CTSnapCall
  \/ CTSnapCollect
  \/ CTValidateCall
  \/ CTValidateCollect
  \/ CTCoverageCall
  \/ CTCoverageCollect
  \/ CTPreserve
  \/ CTSerialize
  \/ CTPanic
  \/ WSResume
  \/ HRespond
  \/ PipeSubmit
  \/ PipeCloseJobs
  \/ PipeCollect
  \/ PipeReturn
  \/ PipeRecv
  \/ PipeExit
  \/ ParseWork
  \/ SnapWork
  \/ ValidateWork
  \/ CoverageWork
  \/ WorkerPanic

Spec == Init /\ [][Next]_vars

\* ------------------------------------------------- properties of the pipeline
\* the sources of the output features, in output order
OutputSources == [i \in DOMAIN ctRet.result.Features |-> ctRet.result.Features[i].src]

\* ---- C2: for every input and every worker scheduling, the features of
\* CleanTopology's output appear in the relative order of the input features
\* they derive from (their input positions are strictly increasing).
C2_OrderPreserved ==
  (ctRet.returned /\ ~ctRet.result.nil) =>
    \A i, j \in DOMAIN OutputSources : i < j => OutputSources[i] < OutputSources[j]

\* ---- C3: a panic raised inside a work function running on a worker of any
\* parallel stage does not terminate the process.
C3_WorkerPanicSurvived == "worker" \in faults => ~crashed

\* ---- C4: whenever the recover() of CleanTopology or CleanTopologyWithShapefile
\* has caught a panic, the response the handler writes is not a success.
C4_RecoveredFaultFails ==
  (recovered # {} /\ response.returned) => response.status # 200

\* ---- C5: when a run without any fault has finished, every handle a record
\* held before an accepted snap replaced it (the post-parse handle included) has
\* been released exactly once.
C5_SupersededReleasedOnce ==
  (pc = "done" /\ faults = {}) => \A h \in superseded : heap[h].rel = 1

\* ---- C6: every conservativeSnap call that returns accepted=true returns a
\* geometry whose distortion score against the input is <= maxDistortion.
C6_AcceptedWithinBudget ==
  (call.fn = "conservativeSnap" /\ call.ok) =>
    ScoreLE(calculateGeometryDistortion(heap, call.geom, call.ret), call.maxDistortion)

C6_Witness ==
  /\ call.fn = "conservativeSnap" /\ call.ok /\ call.ret # call.geom
  /\ ScoreGT(calculateGeometryDistortion(heap, call.geom, call.ret), call.maxDistortion - 1)

\* ---- C7: every conservativeSnap call that returns accepted=false returns the
\* very handle it was given, has not released that handle, and has released the
\* candidate exactly once if the kernel produced one (and created none otherwise).
C7_RejectedKeepsInput ==
  (call.fn = "conservativeSnap" /\ ~call.ok) =>
    /\ call.ret = call.geom
    /\ \A h \in {1, 2} : heap[h].rel = 0
    /\ IF call.cand # Nil
         THEN Len(heap) = 3 /\ call.cand = 3 /\ heap[call.cand].rel = 1
         ELSE Len(heap) = 2

C7_Witness ==
  /\ call.fn = "conservativeSnap" /\ ~call.ok /\ call.cand # Nil
  /\ call.geom # Nil /\ call.maxDistortion > 0

\* ---- C8: after FindNeighbors(A, T), every indexed record B on another handle
\* whose distance to A is <= T is among the returned neighbors, for every cell
\* size and every position of the two boxes relative to the grid.
C8_GridComplete ==
  call.fn = "FindNeighbors" =>
    \A i \in 1..Len(spatialIndex.geometries) :
      LET B == spatialIndex.geometries[i]
      IN (B.Geom # call.geom
          /\ DistanceLE(Geom(heap, call.geom), Geom(heap, B.Geom), call.distance))
         => B \in call.ret

\* a neighbor found across a cell border, below zero, from a box spanning cells
C8_Witness ==
  /\ call.fn = "FindNeighbors" /\ call.distance > 0
  /\ \E B \in call.ret :
       /\ MaxX(Geom(heap, B.Geom)) < 0
       /\ MinX(Geom(heap, call.geom)) > 0
       /\ Len(CellsOfBox(Bounds(Geom(heap, call.geom)), spatialIndex.cellSize)) > 1
       /\ DistanceSq(Geom(heap, call.geom), Geom(heap, B.Geom))
            = call.distance * call.distance

\* every job of the stage has finished
StageDone(s) == stageLog[s].jobs > 0 /\ stageLog[s].finished = stageLog[s].jobs

\* the positions of the request goroutine up to the end of the index loop
BuildPcs == {"h_start", "ct_unmarshal", "ct_parse", "parse_wait", "ct_clone", "ct_index"}

\* ---- C9: no Snap job starts before every Parse job has finished and every
\* parsed geometry is in the index; no Validate&Repair job starts before every
\* Snap job has finished; no Coverage job starts before every Validate&Repair
\* job has finished.
C9_StagesSequential ==
  /\ stageLog["snap"].started > 0 =>
       /\ StageDone("parse")
       /\ pc \notin BuildPcs
       /\ Len(spatialIndex.geometries) = Len(geomFeatures)
  /\ stageLog["validate"].started > 0 => StageDone("snap")
  /\ stageLog["coverage"].started > 0 => StageDone("validate")

C9_Witness ==
  /\ stageLog["coverage"].started > 0
  /\ Cardinality(Workers) >= 2
  /\ stageLog["parse"].jobs >= 2

\* ---- C10: once the index loop of CleanTopology has ended, no step changes the
\* index: neither its cell map nor its record list.
C10_IndexFrozen == [][pc \notin BuildPcs => spatialIndex' = spatialIndex]_vars

C10_Witness ==
  /\ stageLog["snap"].finished >= 2
  /\ Len(spatialIndex.geometries) >= 2
  /\ DOMAIN spatialIndex.grid # {}

\* the Parse stage has returned to CleanTopology
ParseReturned ==
  pc \in {"ct_clone", "ct_index", "ct_snap", "snap_wait", "ct_validate", "validate_wait",
          "ct_coverage", "coverage_wait", "ct_preserve", "ct_serialize"}

\* the positions of the request's features of the given kinds
FeaturesOfKind(kinds) == {k \in 1..Len(payload.features) : payload.features[k].kind \in kinds}

\* ---- C13: every record the Parse stage returned holds a non-nil, non-empty
\* polygon geometry, there is exactly one record for each polygon feature of the
\* request, and a feature that fails to parse, is empty or is of another type
\* has no record and no live handle.
C13_ParsedArePolygons ==
  /\ ParseReturned =>
       /\ \A i \in 1..Len(geomFeatures) :
            /\ geomFeatures[i].Geom # Nil
            /\ heap[geomFeatures[i].Geom].geom.kind = "poly"
            /\ heap[geomFeatures[i].Geom].src \in FeaturesOfKind({"poly"})
            /\ pc = "ct_clone" => heap[geomFeatures[i].Geom].rel = 0
       /\ Len(geomFeatures) = Cardinality(FeaturesOfKind({"poly"}))
       /\ \A i, j \in 1..Len(geomFeatures) :
            heap[geomFeatures[i].Geom].src = heap[geomFeatures[j].Geom].src => i = j
  /\ \A h \in 1..Len(heap) :
       /\ heap[h].src \notin FeaturesOfKind({"bad"})
       /\ heap[h].src \in FeaturesOfKind({"empty", "point"}) => heap[h].rel = 1

C13_Witness ==
  /\ pc = "ct_clone"
  /\ Len(payload.features) = 2 /\ Len(geomFeatures) = 1
  /\ \E h \in 1..Len(heap) : heap[h].geom.kind \in {"empty", "point"} /\ heap[h].rel = 1

\* ---- C14: for a payload that is not well-formed JSON, CleanTopology returns
\* an error and a nil result; the request never reaches the Parse stage or a
\* later one, no batch is started and no geometry handle is created; the
\* handler answers with status 500.
C14_MalformedAbortsFirst ==
  payload.kind = "malformed" =>
    /\ pc \in {"h_start", "ct_unmarshal", "ws_resume", "h_resume", "done"}
    /\ heap = <<>>
    /\ pbpc = "idle"
    /\ \A s \in Stages : stageLog[s].jobs = 0 /\ stageLog[s].started = 0
    /\ ctRet.returned => (ctRet.err # NoErr /\ ctRet.result.nil)
    /\ wsRet.returned => (wsRet.err # NoErr /\ wsRet.zip = "nil")
    /\ response.returned => response.status = 500

C14_Witness ==
  /\ payload.kind = "malformed"
  /\ ctRet.returned /\ ctRet.err = "failed to parse feature collection"
  /\ response.returned

\* the input features the returned collection was made from
ReturnedSources == {ctRet.result.Features[i].src : i \in 1..Len(ctRet.result.Features)}

CleanTopologyOfNoFeatures ==
  (payload.kind = "ok" /\ payload.features = <<>> /\ ctRet.returned) =>
    /\ ctRet.err = NoErr
    /\ ~ctRet.result.nil
    /\ ctRet.result.Features = <<>>
    /\ coverageReport = ZeroReport

\* ---- C16: for a well-formed collection with zero features the cleaning
\* operation succeeds: CleanTopology returns an empty collection and no error
\* with a zero coverage report, and CleanTopologyWithShapefile, the file system
\* working, returns no error either, so that the request is answered with 200.
C16_EmptyCollectionSucceeds ==
  /\ CleanTopologyOfNoFeatures
  /\ (payload.kind = "ok" /\ payload.features = <<>>) =>
       /\ (wsRet.returned /\ wsRet.io) => wsRet.err = NoErr
       /\ (response.returned /\ wsRet.io) => response.status = 200

\* every record of the list that holds a geometry holds the properties of the
\* input feature that geometry derives from
RecordsPaired(gfs) ==
  \A i \in 1..Len(gfs) :
    gfs[i].Geom # Nil =>
      /\ heap[gfs[i].Geom].src \in 1..Len(payload.features)
      /\ gfs[i].Properties = payload.features[heap[gfs[i].Geom].src].props

\* ---- C18: at every stage and under every worker schedule each record, and
\* each feature of the returned collection, carries exactly the properties of
\* the input feature its geometry derives from.
C18_PropertiesFollowGeometry ==
  /\ RecordsPaired(geomFeatures)
  /\ RecordsPaired(originalGeomFeatures)
  /\ RecordsPaired(cleanedGeometries)
  /\ RecordsPaired(validatedGeometries)
  /\ (ctRet.returned /\ ~ctRet.result.nil) =>
       \A k \in 1..Len(ctRet.result.Features) :
         /\ ctRet.result.Features[k].src \in 1..Len(payload.features)
         /\ ctRet.result.Features[k].Properties =
              payload.features[ctRet.result.Features[k].src].props

C18_Witness ==
  /\ ctRet.returned /\ ~ctRet.result.nil
  /\ Len(ctRet.result.Features) = 2
  /\ ctRet.result.Features[1].src = 2
  /\ ctRet.result.Features[1].Properties # ctRet.result.Features[2].Properties
  /\ stageLog["snap"].finished = 2

\* the cells the claim names for a box: floor(min/cellSize) <= c <= floor(max/cellSize)
\* on both axes
CellsNamed(b, cellSize) ==
  {<<cx, cy>> \in (CellOf(b[1], cellSize)..CellOf(b[3], cellSize))
                  \X (CellOf(b[2], cellSize)..CellOf(b[4], cellSize)) : TRUE}

\* how many entries of the cell are the record
EntriesOf(grid, key, rec) ==
  IF key \in DOMAIN grid
    THEN Cardinality({i \in 1..Len(grid[key]) : grid[key][i] = rec})
    ELSE 0

\* ---- C30: after every AddGeometry, each indexed record is referenced once
\* from each cell its bounding box reaches and from no other cell, so that an
\* insertion leaves the entries of the records added before as they were; and
\* the grid holds nothing but indexed records.
C30_ExactCells ==
  /\ \A i \in 1..Len(spatialIndex.geometries) :
       LET rec == spatialIndex.geometries[i]
           named == CellsNamed(Bounds(Geom(heap, rec.Geom)), spatialIndex.cellSize)
       IN /\ \A key \in named : EntriesOf(spatialIndex.grid, key, rec) = 1
          /\ \A key \in DOMAIN spatialIndex.grid \ named :
               EntriesOf(spatialIndex.grid, key, rec) = 0
  /\ \A key \in DOMAIN spatialIndex.grid :
       \A k \in 1..Len(spatialIndex.grid[key]) :
         \E i \in 1..Len(spatialIndex.geometries) :
           spatialIndex.geometries[i] = spatialIndex.grid[key][k]

\* two records share a cell, one of them reaching several cells below zero
C30_Witness ==
  /\ Len(spatialIndex.geometries) = 2
  /\ \E key \in DOMAIN spatialIndex.grid : Len(spatialIndex.grid[key]) = 2
  /\ \E i \in 1..2 :
       /\ Cardinality(CellsNamed(Bounds(Geom(heap, spatialIndex.geometries[i].Geom)),
                                 spatialIndex.cellSize)) >= 4
       /\ MinX(Geom(heap, spatialIndex.geometries[i].Geom)) < 0

\* the Validate & Repair stage has just returned to CleanTopology
ValidateReturned == pc = "ct_coverage" /\ workKind = "validate" /\ pbpc = "idle"

\* the validation results whose truncation failed
TruncationFailed ==
  {k \in 1..Len(results) : results[k].Error \in {"geometry is nil", "no valid polygons found"}}

\* ---- C28: when Validate & Repair has returned, every record whose truncation
\* failed stands at its own index of the stage output with its own properties
\* and the geometry it had after the repair step and before truncation (the
\* repaired geometry when the repair produced one, else the incoming one), that
\* geometry is not released, and the stage has returned no error.
C28_FailedTruncationPassedThrough ==
  ValidateReturned =>
    /\ ~ctRet.returned
    /\ Len(validatedGeometries) = Len(cleanedGeometries)
    /\ \A k \in TruncationFailed :
         LET r == results[k]
             out == validatedGeometries[r.Index + 1]
             in == cleanedGeometries[r.Index + 1]
         IN /\ out.Properties = in.Properties
            /\ out.Geom # Nil
            /\ heap[out.Geom].rel = 0
            /\ IF r.WasRepaired
                 THEN /\ out.Geom # in.Geom
                      /\ heap[in.Geom].rel = 1
                      /\ IsValid(Geom(heap, out.Geom))
                      /\ Bounds(Geom(heap, out.Geom)) = Bounds(Geom(heap, in.Geom))
                 ELSE out.Geom = in.Geom

\* one record failed after a repair, another without one, and they arrived in
\* the opposite order
C28_Witness ==
  /\ ValidateReturned
  /\ \E k, l \in TruncationFailed :
       /\ results[k].WasRepaired /\ ~results[l].WasRepaired
       /\ results[k].Index < results[l].Index /\ k > l

\* the handles the records of a list hold
HandlesOf(gfs) == {gfs[i].Geom : i \in 1..Len(gfs)} \ {Nil}

\* the handles a worker's running work function reads from the heap it finds:
\* snapGeometry its own geometry and those of the indexed records,
\* validateGeometry its own geometry, validatePair the two of its pair
WorkerReads(w) ==
  IF wst[w] # "work" THEN {}
  ELSE IF workKind = "snap"
    THEN IF items[wjob[w]].GeomFeature.Geom = Nil THEN {}
         ELSE {items[wjob[w]].GeomFeature.Geom} \cup HandlesOf(spatialIndex.geometries)
  ELSE IF workKind = "validate" THEN {items[wjob[w]].GeomFeature.Geom} \ {Nil}
  ELSE IF workKind = "coverage" THEN {items[wjob[w]].GeomI, items[wjob[w]].GeomJ}
  ELSE {}

\* the handles the next step of CleanTopology's own goroutine reads: the clone
\* loop, the index loop, the audit of the pairs (original, validated), and the
\* serialization
RequestReads ==
  IF pc = "ct_clone" THEN HandlesOf(geomFeatures)
  ELSE IF pc = "ct_index"
    THEN {geomFeatures[i].Geom : i \in (idx + 1)..Len(geomFeatures)} \ {Nil}
  ELSE IF pc = "ct_preserve"
    THEN HandlesOf(originalGeomFeatures) \cup
         (IF Len(originalGeomFeatures) # Len(validatedGeometries) THEN {}
          ELSE {validatedGeometries[i].Geom : i \in {j \in 1..Len(validatedGeometries) :
                                                       originalGeomFeatures[j].Geom # Nil}} \ {Nil})
  ELSE IF pc = "ct_serialize" THEN HandlesOf(validatedGeometries)
  ELSE {}

\* the handles about to be read
PendingReads == RequestReads \cup UNION {WorkerReads(w) : w \in Workers}

SnapRunning == pc = "snap_wait" /\ workKind = "snap"

\* ---- C33: while the Snap stage is running the index references exactly the
\* post-parse geometries of the records, every one of them is unreleased, and
\* no step releases one; so the geometry of a neighbor a worker reads is never
\* a released handle.
C33_IndexedHandlesLive ==
  (SnapRunning /\ ~crashed) =>
    /\ HandlesOf(spatialIndex.geometries) = HandlesOf(geomFeatures)
    /\ \A h \in HandlesOf(spatialIndex.geometries) : heap[h].rel = 0
    /\ \A w \in Workers :
         (wst[w] = "work" /\ items[wjob[w]].GeomFeature.Geom # Nil) =>
           \A n \in FindNeighbors(spatialIndex, heap, items[wjob[w]].GeomFeature.Geom,
                                  SearchRadius(items[wjob[w]].Tolerance)) :
             heap[n.Geom].rel = 0

\* one worker has had a snap accepted, giving its record a new handle, while
\* another is at work with the first record among its neighbors
C33_Witness ==
  /\ SnapRunning /\ ~crashed
  /\ superseded # {}
  /\ \E w \in Workers :
       /\ wst[w] = "work" /\ items[wjob[w]].GeomFeature.Geom # Nil
       /\ \E n \in FindNeighbors(spatialIndex, heap, items[wjob[w]].GeomFeature.Geom,
                                 SearchRadius(items[wjob[w]].Tolerance)) :
            n.Geom \in superseded

\* the index as CleanTopology lines 71-73 build it from the parsed records
RECURSIVE IndexOfRecords(_, _, _, _)
IndexOfRecords(si, h, gfs, i) ==
  IF i > Len(gfs) THEN si
  ELSE IndexOfRecords(AddGeometry(si, h, gfs[i].Geom, i - 1, gfs[i].Properties), h, gfs, i + 1)

\* the handles as they were when the Snap stage began: the clones are the last
\* handles made before it
PostParseHeap ==
  LET hs == HandlesOf(originalGeomFeatures) \cup HandlesOf(geomFeatures)
  IN SubSeq(heap, 1, IF hs = {} THEN 0 ELSE CHOOSE n \in hs : \A h \in hs : h <= n)

\* the geometries a Snap job can produce from the handles `h` and the index `si`
SnapOutcomes(h, si, job) ==
  IF job.GeomFeature.Geom = Nil THEN {}
  ELSE LET found == FindNeighbors(si, h, job.GeomFeature.Geom, SearchRadius(job.Tolerance))
       IN {[geom |-> Geom(snapGeometry(h, job, nbrs, ks).heap,
                          snapGeometry(h, job, nbrs, ks).result.GeomFeature.Geom),
            WasSnapped |-> snapGeometry(h, job, nbrs, ks).result.WasSnapped,
            Index |-> snapGeometry(h, job, nbrs, ks).result.Index] :
             <<nbrs, ks>> \in UNION {{<<n, k>> : k \in [1..Len(n) -> SnapChoices(job.Tolerance)]} :
                                       n \in Orders(found)}}

\* ---- C37: at every moment of the Snap stage, whatever the other Snap jobs
\* have done so far, the geometry a running Snap job can produce is the one it
\* produces from the post-parse geometries and the index built from them.
C37_SnapIndependentOfProgress ==
  (SnapRunning /\ ~crashed) =>
    \A w \in Workers :
      wst[w] = "work" =>
        SnapOutcomes(heap, spatialIndex, items[wjob[w]])
          = SnapOutcomes(PostParseHeap,
                         IndexOfRecords(NewSpatialIndex(SnapTolerance * 100), PostParseHeap,
                                        geomFeatures, 1),
                         items[wjob[w]])

\* a job is running whose neighbor's job has finished with an accepted snap,
\* and it can itself end snapped or not
C37_Witness ==
  /\ SnapRunning /\ ~crashed
  /\ \E w \in Workers :
       /\ wst[w] = "work"
       /\ \E h \in superseded : h # items[wjob[w]].GeomFeature.Geom
       /\ \E o1, o2 \in SnapOutcomes(heap, spatialIndex, items[wjob[w]]) :
            o1.WasSnapped /\ ~o2.WasSnapped
       /\ Len(heap) > Len(PostParseHeap)

\* ------------------------------------------------- TruncateFullGeometry on its own
\* Two versions of the function are in the sources: utils/polygon-utils.go
\* (collects the parts in arrival order) and unnamed/part_000 (routineResult:
\* collects the parts by index).  A feature is the sequence of its parts
\* (feature.NumGeometries(), feature.Geometry(i)); a Polygon is its own one part.
\* Parts are polygons (TypeID 3); collections nested in collections are not modelled.
MaxParts == 3

TruncVersions == {"polygon-utils", "part_000"}

\* a nil *geos.Geom where a geometry value is expected
NilGeom == [kind |-> "nil", box |-> <<0, 0, 0, 0>>, valid |-> FALSE]

PartPool ==
  { [kind |-> "poly",  box |-> <<3, 4, 52, 96>>,    valid |-> TRUE],
    [kind |-> "poly",  box |-> <<60, 0, 155, 100>>, valid |-> TRUE],
    [kind |-> "poly",  box |-> <<0, 0, 10, 10>>,    valid |-> FALSE],
    [kind |-> "poly",  box |-> <<3, 4, 4, 96>>,     valid |-> TRUE],
    [kind |-> "empty", box |-> <<0, 0, 0, 0>>,      valid |-> TRUE] }

\* TruncateSinglePolygon, lines 103-144, including its nil result: an exterior
\* ring of at most 3 coordinates (an empty polygon) yields nil
TruncatePart(g) == IF g.kind = "empty" THEN NilGeom ELSE TruncateSinglePolygon(g)

\* the parts for which a goroutine is launched: the valid ones
LaunchedParts(parts) == {i \in 1..Len(parts) : IsValid(parts[i])}

\* polygon-utils.go lines 38-57: totalPolygons
TotalPolygons(parts) == Cardinality(LaunchedParts(parts))

\* the number of results the collect loop waits for: totalPolygons in
\* polygon-utils.go (line 85), feature.NumGeometries() in part_000 (line 65)
Awaited(version, parts) ==
  IF version = "polygon-utils" THEN TotalPolygons(parts) ELSE Len(parts)

NoGeometry == [isNil |-> TRUE, parts |-> <<>>]

InitTrunc ==
  /\ NumCPU = 1 /\ ppNumWorkers = 1 /\ BatchIdle /\ PipeIdle
  /\ spatialIndex = NewSpatialIndex(1)
  /\ call = NoCall
  /\ heap = <<>>

\* the call up to the launch of the goroutines; `nilInput` is feature == nil
TruncEnter(version, nilInput, parts) ==
  IF nilInput
    THEN [fn |-> "TruncateFullGeometry", version |-> version, nilInput |-> TRUE,
          parts |-> <<>>, pc |-> "returned", pending |-> {}, polygons |-> <<>>,
          newPolygons |-> <<>>, got |-> 0, ret |-> NoGeometry, err |-> "geometry is nil",
          pass |-> 1, prev |-> <<>>]
  ELSE IF version = "polygon-utils" /\ TotalPolygons(parts) = 0
    THEN [fn |-> "TruncateFullGeometry", version |-> version, nilInput |-> FALSE,
          parts |-> parts, pc |-> "returned", pending |-> {}, polygons |-> <<>>,
          newPolygons |-> <<>>, got |-> 0, ret |-> NoGeometry,
          err |-> "no valid polygons found", pass |-> 1, prev |-> <<>>]
  ELSE [fn |-> "TruncateFullGeometry", version |-> version, nilInput |-> FALSE,
        parts |-> parts, pc |-> "collect", pending |-> LaunchedParts(parts),
        polygons |-> <<>>,
        newPolygons |-> IF version = "polygon-utils" THEN <<>>
                        ELSE [i \in 1..Len(parts) |-> [Result |-> NilGeom, Index |-> 0]],
        got |-> 0, ret |-> NoGeometry, err |-> NoErr, pass |-> 1, prev |-> <<>>]

TruncCall ==
  /\ call.fn = "none"
  /\ \E version \in TruncVersions, nilInput \in BOOLEAN,
        parts \in SeqsUpTo(PartPool, MaxParts) :
       /\ nilInput => parts = <<>>
       /\ ~nilInput => Len(parts) >= 1
       /\ call' = TruncEnter(version, nilInput, parts)
  /\ UNCHANGED <<NumCPU, heap, spatialIndex, bvars, pvars>>

\* a goroutine sends its truncated part on the channel (Index is the part's
\* position: carried by routineResult in part_000, history in polygon-utils.go)
TruncSend ==
  /\ call.fn = "TruncateFullGeometry"
  /\ \E i \in call.pending :
       call' = [call EXCEPT
                  !.polygons = ChanSend(@, [Result |-> TruncatePart(call.parts[i]), Index |-> i]),
                  !.pending = @ \ {i}]
  /\ UNCHANGED <<NumCPU, heap, spatialIndex, bvars, pvars>>

\* what one round of the collect loop does to newPolygons
CollectByArrival(newPolygons, res) ==
  IF res.Result # NilGeom THEN Append(newPolygons, res) ELSE newPolygons
CollectByIndex(newPolygons, res) == [newPolygons EXCEPT ![res.Index] = res]

\* one round of the collect loop
TruncCollect ==
  /\ call.fn = "TruncateFullGeometry"
  /\ call.pc = "collect"
  /\ call.got < Awaited(call.version, call.parts)
  /\ call.polygons # <<>>
  /\ call' = [call EXCEPT
                !.polygons = ChanRest(@),
                !.got = @ + 1,
                !.newPolygons = IF call.version = "polygon-utils"
                                  THEN CollectByArrival(@, ChanHead(call.polygons))
                                  ELSE CollectByIndex(@, ChanHead(call.polygons))]
  /\ UNCHANGED <<NumCPU, heap, spatialIndex, bvars, pvars>>

\* the returned values: polygon-utils.go lines 92-100, part_000 lines 70-74
TruncResult(version, newPolygons) ==
  IF version = "polygon-utils" /\ Len(newPolygons) = 0
    THEN [ret |-> NoGeometry, err |-> "no valid truncated polygons produced"]
  ELSE IF Len(newPolygons) = 1
    THEN [ret |-> IF newPolygons[1].Result = NilGeom THEN NoGeometry
                  ELSE [isNil |-> FALSE, parts |-> newPolygons],
          err |-> NoErr]
  ELSE [ret |-> [isNil |-> FALSE, parts |-> newPolygons], err |-> NoErr]

TruncReturn ==
  /\ call.fn = "TruncateFullGeometry"
  /\ call.pc = "collect"
  /\ call.got = Awaited(call.version, call.parts)
  /\ call' = [call EXCEPT !.pc = "returned",
                          !.ret = TruncResult(call.version, call.newPolygons).ret,
                          !.err = TruncResult(call.version, call.newPolygons).err]
  /\ UNCHANGED <<NumCPU, heap, spatialIndex, bvars, pvars>>

\* the geometries of the parts of a returned geometry
PartsOf(ret) == [i \in 1..Len(ret.parts) |-> ret.parts[i].Result]

\* the caller hands the returned geometry to TruncateFullGeometry once more
TruncAgain ==
  /\ call.fn = "TruncateFullGeometry"
  /\ call.pc = "returned" /\ call.pass = 1
  /\ ~call.ret.isNil
  /\ \A i \in 1..Len(call.ret.parts) : call.ret.parts[i].Result # NilGeom
  /\ call' = [TruncEnter(call.version, FALSE, PartsOf(call.ret)) EXCEPT
                !.pass = 2, !.prev = PartsOf(call.ret)]
  /\ UNCHANGED <<NumCPU, heap, spatialIndex, bvars, pvars>>

NextTrunc ==
  \/ TruncCall
  \/ TruncSend
  \/ TruncCollect
  \/ TruncReturn
  \/ TruncAgain

SpecTrunc == InitTrunc /\ [][NextTrunc]_vars

\* ---- C19: the polygon parts of the geometry TruncateFullGeometry returns are
\* in the order of the input parts they were truncated from, whatever the order
\* in which the goroutines sent them.
C19_PartOrderPreserved ==
  (call.fn = "TruncateFullGeometry" /\ call.pc = "returned" /\ ~call.ret.isNil) =>
    \A i, j \in 1..Len(call.ret.parts) :
      i < j => call.ret.parts[i].Index < call.ret.parts[j].Index

\* a polygon remains: some valid part whose truncation yields a polygon
PolygonRemains(parts) == \E i \in LaunchedParts(parts) : TruncatePart(parts[i]) # NilGeom

\* ---- C20: a returned TruncateFullGeometry call gives an error and no geometry
\* when the input is nil or no valid polygon remains, and a geometry and no
\* error in every other case; and every call returns.
C20_ErrorOrGeometry ==
  call.fn = "TruncateFullGeometry" =>
    /\ call.pc = "returned" =>
         IF call.nilInput \/ ~PolygonRemains(call.parts)
           THEN call.err # NoErr /\ call.ret.isNil
           ELSE call.err = NoErr /\ ~call.ret.isNil
    /\ (call.pc = "collect" /\ call.pending = {} /\ call.polygons = <<>>) =>
         call.got = Awaited(call.version, call.parts)

\* ------------------------------------------------- the serialization on its own
\* CleanTopology lines 113-132 on any list of validated records, a record with
\* a nil geometry included (in the pipeline a work function always returns a
\* record with a geometry, so that the nil branch of line 119 is not taken there)
MaxRecords == 3

SerGeoms == {Poly(<<0, 0, 50, 100>>), Poly(<<60, 0, 160, 100>>)}

\* the heap of the handles the records point at
SerHeap(gs) == [i \in 1..Len(gs) |-> [geom |-> gs[i], rel |-> 0, src |-> i]]

\* the records over a heap of n handles
RecordPool(n) ==
  {[Geom |-> Nil, Properties |-> p] : p \in {NoProps, "pA"}}
  \cup {[Geom |-> h, Properties |-> p] : h \in 1..n, p \in {"pA", "pB"}}

InitSer ==
  /\ NumCPU = 1 /\ ppNumWorkers = 1 /\ BatchIdle /\ PipeIdle
  /\ spatialIndex = NewSpatialIndex(1)
  /\ call = NoCall
  /\ heap = <<>>

\* the state at line 113: the validated records and their handles
SerCall ==
  /\ call.fn = "none"
  /\ \E gs \in SeqsUpTo(SerGeoms, 2) :
       /\ gs # <<>>
       /\ heap' = SerHeap(gs)
       /\ \E gfs \in SeqsUpTo(RecordPool(Len(gs)), MaxRecords) : validatedGeometries' = gfs
  /\ call' = [fn |-> "Serialize"]
  /\ UNCHANGED <<NumCPU, spatialIndex, bvars, payload, pc, idx, geomFeatures,
                 originalGeomFeatures, cleanedGeometries, coverageReport, ctRet, wsRet,
                 response, crashed, faults, recovered, stageLog, superseded>>

\* lines 113-132
SerReturn ==
  /\ call.fn = "Serialize"
  /\ ~ctRet.returned
  /\ ctRet' = [returned |-> TRUE,
               result |-> [nil |-> FALSE, Type |-> "FeatureCollection",
                           Features |-> Serialize(heap, validatedGeometries)],
               err |-> NoErr]
  /\ UNCHANGED <<NumCPU, heap, spatialIndex, call, bvars, payload, pc, idx, geomFeatures,
                 originalGeomFeatures, cleanedGeometries, validatedGeometries,
                 coverageReport, wsRet, response, crashed, faults, recovered, stageLog,
                 superseded>>

NextSer ==
  \/ SerCall
  \/ SerReturn

SpecSer == InitSer /\ [][NextSer]_vars

\* the validated records that hold a geometry
NonNilRecords == {i \in 1..Len(validatedGeometries) : validatedGeometries[i].Geom # Nil}

\* ---- C17: the features of a returned collection are exactly the validated
\* records with a non-nil geometry, one feature each with the record's
\* properties and the GeoJSON of its geometry, in ascending record index; a
\* record with a nil geometry has no feature.
C17_SerializedInOrder ==
  (ctRet.returned /\ ~ctRet.result.nil) =>
    /\ Len(ctRet.result.Features) = Cardinality(NonNilRecords)
    /\ \E f \in [1..Len(ctRet.result.Features) -> NonNilRecords] :
         /\ \A a, b \in 1..Len(ctRet.result.Features) : a < b => f[a] < f[b]
         /\ \A k \in 1..Len(ctRet.result.Features) :
              /\ ctRet.result.Features[k].Type = "Feature"
              /\ ctRet.result.Features[k].Properties = validatedGeometries[f[k]].Properties
              /\ ctRet.result.Features[k].Geometry =
                   ToGeoJSON(Geom(heap, validatedGeometries[f[k]].Geom))

C17_Witness ==
  /\ call.fn = "Serialize" /\ ctRet.returned
  /\ Len(validatedGeometries) = 3
  /\ validatedGeometries[1].Geom # Nil
  /\ validatedGeometries[2].Geom = Nil
  /\ validatedGeometries[3].Geom # Nil
  /\ validatedGeometries[1].Geom # validatedGeometries[3].Geom
  /\ Len(ctRet.result.Features) = 2

\* how many times a geometry occurs among the parts
Occurrences(parts, g) == Cardinality({i \in 1..Len(parts) : parts[i] = g})

\* the rounding of the coordinates on its own: rounding a rounded geometry
\* leaves every coordinate as it is
CoordinatesStable ==
  (call.fn = "TruncateFullGeometry" /\ call.pc = "returned" /\ ~call.ret.isNil) =>
    \A i \in 1..Len(call.ret.parts) :
      call.ret.parts[i].Result # NilGeom =>
        TruncateSinglePolygon(call.ret.parts[i].Result).box = call.ret.parts[i].Result.box

\* ---- C21: TruncateFullGeometry applied to a geometry it returned returns a
\* geometry and no error, with the same parts and the same coordinates as the
\* geometry it was given (the order of the parts apart).
C21_TruncationIdempotent ==
  (call.fn = "TruncateFullGeometry" /\ call.pc = "returned" /\ call.pass = 2) =>
    /\ call.err = NoErr
    /\ ~call.ret.isNil
    /\ Len(call.ret.parts) = Len(call.prev)
    /\ \A i \in 1..Len(call.prev) :
         Occurrences(PartsOf(call.ret), call.prev[i]) = Occurrences(call.prev, call.prev[i])

\* ------------------------------------------------- the slice FindNeighbors returns
\* FindNeighbors above is the set of the returned records; here the returned
\* slice itself, on an index of up to MaxIndexed records, and the order in which
\* snapGeometry folds it
MaxIndexed == 3

NbrBoxes == {<<0, 0, 1, 1>>, <<2, 0, 5, 1>>, <<-3, -1, -1, 0>>, <<3, 1, 4, 2>>}

\* an iteration over the visited records themselves
VisitOrder(visited) == {visited}

\* `for _, candidate := range candidates`, lines 105 and 122: the map holds one
\* record per Index and Go leaves the order of its iteration open
MapOrders(visited) == Orders(Candidates(visited))

\* FindNeighbors, lines 81-132: the slices the call may return
NeighborSlices(si, h, geom, distance) ==
  {SelectSeq(c, LAMBDA r : DistanceLE(Geom(h, geom), Geom(h, r.Geom), distance)) :
     c \in MapOrders(CellRecords(si.grid,
                       CellsOfBox(BufferBounds(Geom(h, geom), distance), si.cellSize), geom))}

\* snapGeometry, part_004 lines 389-392: the Index of the neighbors the fold
\* hands to conservativeSnap, in the order of the slice
FoldOrder(index, nbrs) ==
  LET kept == SelectSeq(nbrs, LAMBDA n : n.Geom # Nil /\ n.Index # index)
  IN [i \in 1..Len(kept) |-> kept[i].Index]

InitNbr ==
  /\ NumCPU = 1 /\ ppNumWorkers = 1 /\ BatchIdle /\ PipeIdle
  /\ \E cellSize \in 1..MaxCell : spatialIndex = NewSpatialIndex(cellSize)
  /\ call = NoCall
  /\ heap = <<>>

\* CleanTopology lines 71-73: record i is added with Index i
NbrAdd ==
  /\ call.fn = "none"
  /\ Len(spatialIndex.geometries) < MaxIndexed
  /\ \E b \in NbrBoxes :
       /\ heap' = Alloc(heap, Poly(b), 0)
       /\ spatialIndex' = AddGeometry(spatialIndex, Alloc(heap, Poly(b), 0), NewHandle(heap),
                                      Len(spatialIndex.geometries), "p")
  /\ UNCHANGED <<NumCPU, call, bvars, pvars>>

\* snapGeometry of record i up to the fold: the query and the returned slice
NbrQuery ==
  /\ call.fn = "none"
  /\ \E i \in 1..Len(spatialIndex.geometries), distance \in 0..MaxDist :
       LET rec == spatialIndex.geometries[i]
       IN \E nbrs \in NeighborSlices(spatialIndex, heap, rec.Geom, distance) :
            call' = [fn |-> "FindNeighbors", geom |-> rec.Geom, index |-> rec.Index,
                     distance |-> distance,
                     visited |-> CellRecords(spatialIndex.grid,
                                   CellsOfBox(BufferBounds(Geom(heap, rec.Geom), distance),
                                              spatialIndex.cellSize), rec.Geom),
                     ret |-> FindNeighbors(spatialIndex, heap, rec.Geom, distance),
                     neighbors |-> nbrs,
                     folded |-> FoldOrder(rec.Index, nbrs)]
  /\ spatialIndex' = IndexAfterQuery(spatialIndex)
  /\ UNCHANGED <<NumCPU, heap, bvars, pvars>>

NextNbr ==
  \/ NbrAdd
  \/ NbrQuery

SpecNbr == InitNbr /\ [][NextNbr]_vars

\* ---- C22: the Snap stage folds the snap policy over the neighbors of a
\* record in ascending record index, the same order in every run.
C22_FoldInIndexOrder ==
  (call.fn = "FindNeighbors" /\ "folded" \in DOMAIN call) =>
    \A a, b \in 1..Len(call.folded) : a < b => call.folded[a] < call.folded[b]

\* ---- C29: every record of the slice FindNeighbors(g, d) returns is at a
\* distance <= d from g, is not a record on the handle g, and no two positions
\* of the slice hold the same Index, even for a record the query visits in
\* several cells.
C29_NeighborsNearOnce ==
  (call.fn = "FindNeighbors" /\ "neighbors" \in DOMAIN call) =>
    /\ \A a \in 1..Len(call.neighbors) :
         /\ DistanceSq(Geom(heap, call.geom), Geom(heap, call.neighbors[a].Geom))
              <= call.distance * call.distance
         /\ call.neighbors[a].Geom # call.geom
         /\ call.neighbors[a].Index # call.index
    /\ \A a, b \in 1..Len(call.neighbors) :
         call.neighbors[a].Index = call.neighbors[b].Index => a = b

\* a neighbor visited in two cells, and a candidate that is too far
C29_Witness ==
  /\ call.fn = "FindNeighbors" /\ "neighbors" \in DOMAIN call
  /\ \E a \in 1..Len(call.neighbors) :
       Cardinality({v \in 1..Len(call.visited) : call.visited[v] = call.neighbors[a]}) >= 2
  /\ \E v \in 1..Len(call.visited) :
       \A a \in 1..Len(call.neighbors) : call.neighbors[a] # call.visited[v]

\* ------------------------------------------------- validateCoverageParallel on its own
\* the coverage validator on up to MaxPairRecords validated records, records
\* with a nil geometry included, for boxes that overlap, touch nothing, lie in
\* one another or lie far apart
MaxPairRecords == 3

CovBoxes ==
  {<<0, 0, 10, 10>>, <<5, 5, 15, 15>>, <<12, 0, 20, 10>>, <<2, 2, 8, 8>>,
   <<9, 9, 19, 19>>, <<100, 0, 110, 10>>}
CovTolerances == {1, 2}

\* a record without geometry

\* the handles and the validated records for the chosen boxes
CovHeap(slots) ==
  [i \in 1..Len(slots) |->
     [geom |-> Poly(IF slots[i] = NoBox THEN <<0, 0, 0, 0>> ELSE slots[i]),
      rel |-> IF slots[i] = NoBox THEN 1 ELSE 0, src |-> i]]
CovRecords(slots) ==
  [i \in 1..Len(slots) |->
     [Geom |-> IF slots[i] = NoBox THEN Nil ELSE i, Properties |-> "p"]]

\* ProcessBatch returns the results in the order the workers sent them
\* (worker-pool.go lines 154-161): any order of the jobs
ArrivalOrders(jobs) == Orders(1..Len(jobs))

InitCov ==
  /\ NumCPU = 1 /\ ppNumWorkers = 1 /\ BatchIdle /\ PipeIdle
  /\ spatialIndex = NewSpatialIndex(1)
  /\ call = NoCall
  /\ heap = <<>>

\* CleanTopology line 93: the call
CovCall ==
  /\ call.fn = "none"
  /\ \E slots \in SeqsUpTo(CovBoxes \cup {NoBox}, MaxPairRecords), t \in CovTolerances :
       /\ heap' = CovHeap(slots)
       /\ validatedGeometries' = CovRecords(slots)
       /\ call' = [fn |-> "validateCoverageParallel", pc |-> "called", tolerance |-> t,
                   jobs |-> <<>>, results |-> <<>>]
  /\ UNCHANGED <<NumCPU, spatialIndex, bvars, payload, pc, idx, geomFeatures,
                 originalGeomFeatures, cleanedGeometries, coverageReport, ctRet, wsRet,
                 response, crashed, faults, recovered, stageLog, superseded>>

\* validateCoverageParallel, lines 792-967, the batch returning in any order
CovReturn ==
  /\ call.fn = "validateCoverageParallel" /\ call.pc = "called"
  /\ LET jobs == IF Len(validatedGeometries) <= 1 THEN <<>>
                 ELSE CoverageJobs(validatedGeometries, call.tolerance)
     IN \E f \in ArrivalOrders(jobs) :
          LET rs == [k \in 1..Len(jobs) |-> validatePair(heap, jobs[f[k]])]
          IN /\ call' = [call EXCEPT !.pc = "returned", !.jobs = jobs, !.results = rs]
             /\ coverageReport' = Aggregate(ZeroReport, rs)
  /\ UNCHANGED <<NumCPU, heap, spatialIndex, bvars, payload, pc, idx, geomFeatures,
                 originalGeomFeatures, cleanedGeometries, validatedGeometries, ctRet, wsRet,
                 response, crashed, faults, recovered, stageLog, superseded>>

NextCov ==
  \/ CovCall
  \/ CovReturn

SpecCov == InitCov /\ [][NextCov]_vars

CovReturned == call.fn = "validateCoverageParallel" /\ call.pc = "returned"

\* the 0-based positions of the records that hold a geometry
WithGeometry == {i - 1 : i \in NonNilRecords}

\* ---- C23: the coverage validator evaluates every unordered pair of distinct
\* records with a geometry exactly once, and no pair with a record without
\* geometry or with the same record twice.
C23_EveryPairOnce ==
  CovReturned =>
    /\ \A i, j \in WithGeometry :
         i < j =>
           Cardinality({k \in 1..Len(call.results) :
                          {call.results[k].IndexI, call.results[k].IndexJ} = {i, j}}) = 1
    /\ \A k \in 1..Len(call.results) :
         /\ call.results[k].IndexI # call.results[k].IndexJ
         /\ call.results[k].IndexI \in WithGeometry
         /\ call.results[k].IndexJ \in WithGeometry

C23_Witness ==
  /\ CovReturned
  /\ Len(validatedGeometries) = 3 /\ Cardinality(WithGeometry) = 3
  /\ Len(call.results) = 3
  /\ call.results[1].IndexI = 1 /\ call.results[1].IndexJ = 2

\* the pairs i < j of records with geometry whose polygons overlap, by the
\* kernel's predicate, on more than tolerance squared
OverlappingPairs ==
  {p \in WithGeometry \X WithGeometry :
     /\ p[1] < p[2]
     /\ Overlaps(Geom(heap, validatedGeometries[p[1] + 1].Geom),
                 Geom(heap, validatedGeometries[p[2] + 1].Geom))
     /\ IntersectionArea(Geom(heap, validatedGeometries[p[1] + 1].Geom),
                         Geom(heap, validatedGeometries[p[2] + 1].Geom))
          > call.tolerance * call.tolerance}

RECURSIVE SumOfAreas(_)
SumOfAreas(pairs) ==
  IF pairs = {} THEN 0
  ELSE LET p == CHOOSE q \in pairs : TRUE
       IN IntersectionArea(Geom(heap, validatedGeometries[p[1] + 1].Geom),
                           Geom(heap, validatedGeometries[p[2] + 1].Geom))
          + SumOfAreas(pairs \ {p})

InGapRange(r) ==
  LET d2 == DistanceSq(Geom(heap, validatedGeometries[r.IndexI + 1].Geom),
                       Geom(heap, validatedGeometries[r.IndexJ + 1].Geom))
  IN /\ call.tolerance * call.tolerance <= d2
     /\ d2 <= (call.tolerance * 50) * (call.tolerance * 50)

\* a pair is reported as a gap only with its distance in the range
GapOnlyInRange ==
  CovReturned => \A k \in 1..Len(call.results) : call.results[k].HasGap => InGapRange(call.results[k])

\* analyzeBoundaryGaps is called only with the pair's distance in the range
AnalysisOnlyInRange ==
  CovReturned =>
    \A k \in 1..Len(call.results) :
      InvokesGapAnalysis(Geom(heap, validatedGeometries[call.results[k].IndexI + 1].Geom),
                         Geom(heap, validatedGeometries[call.results[k].IndexJ + 1].Geom),
                         call.tolerance)
        => InGapRange(call.results[k])

\* ---- C25: a pair is counted as a gap only if its inter-geometry distance is
\* in [tolerance, tolerance*50], and the boundary-gap analysis is not called
\* for a pair whose distance is below tolerance or above tolerance*50.
C25_GapWithinRange == GapOnlyInRange /\ AnalysisOnlyInRange

\* the job of a result with its two geometries exchanged
SwappedJob(r) ==
  [GeomI |-> validatedGeometries[r.IndexJ + 1].Geom,
   GeomJ |-> validatedGeometries[r.IndexI + 1].Geom,
   IndexI |-> r.IndexJ, IndexJ |-> r.IndexI, Tolerance |-> call.tolerance]

ReportEvery == 100

\* a tracker that prints at the interval only
ReportsAtInterval(processed, total) == processed % ReportEvery = 0

\* Increment, line 91: the value returned by the atomic add is printed at every
\* multiple of the interval and at completion
ShouldReport(processed, total) ==
  processed % ReportEvery = 0 \/ processed = total

\* the batch sizes studied: small ones and those around the report interval
TrackTotals ==
  (1..MaxJobs) \cup {ReportEvery, ReportEvery + 1, 2 * ReportEvery}

InitTrack ==
  /\ NumCPU = MaxCPU
  /\ ppNumWorkers \in 0..MaxCPU
  /\ BatchIdle /\ PipeIdle
  /\ spatialIndex = NewSpatialIndex(1)
  /\ call = NoCall
  /\ heap = <<>>

trest == <<NumCPU, heap, spatialIndex, ppNumWorkers, items, workKind, pbpc, sub,
           JobQueue, jqClosed, Results, resClosed, wst, wjob, results, got, wg,
           calls, done, pvars>>

\* ProcessBatch lines 134-152 for a batch of `Total` jobs: the tracker is
\* created with Processed 0, the workers are started and the jobs are queued;
\* `wpc` is each worker's position, `local` the value its atomic add returned,
\* `reports` the processed counts printed so far.
TrackCall ==
  /\ call.fn = "none"
  /\ \E n \in TrackTotals :
       call' = [fn |-> "Increment", pc |-> "running", Total |-> n, queued |-> n,
                wpc |-> [w \in 1..EffectiveWorkers(ppNumWorkers) |-> "recv"],
                local |-> [w \in 1..EffectiveWorkers(ppNumWorkers) |-> 0],
                reports |-> <<>>]
  /\ Processed' = 0
  /\ UNCHANGED trest

\* worker, line 56: a job is received
TrackTake ==
  /\ call.fn = "Increment"
  /\ \E w \in DOMAIN call.wpc :
       /\ call.wpc[w] = "recv" /\ call.queued > 0
       /\ call' = [call EXCEPT !.wpc[w] = "work", !.queued = @ - 1]
  /\ UNCHANGED <<Processed, trest>>

\* lines 141-142 and 88: the work function has returned and the counter is
\* incremented atomically; the worker keeps the new value
TrackAdd ==
  /\ call.fn = "Increment"
  /\ \E w \in DOMAIN call.wpc :
       /\ call.wpc[w] = "work"
       /\ Processed' = Processed + 1
       /\ call' = [call EXCEPT !.wpc[w] = "print", !.local[w] = Processed + 1]
  /\ UNCHANGED trest

\* lines 91-98 and 143, 59: the worker prints its value when due, leaves
\* Increment (its local value is gone) and sends the result
TrackReport ==
  /\ call.fn = "Increment"
  /\ \E w \in DOMAIN call.wpc :
       /\ call.wpc[w] = "print"
       /\ call' = [call EXCEPT !.wpc[w] = "recv", !.local[w] = 0,
                               !.reports = IF ShouldReport(call.local[w], call.Total)
                                             THEN Append(@, call.local[w]) ELSE @]
  /\ UNCHANGED <<Processed, trest>>

\* worker, lines 54-56: the queue is closed and drained
TrackExit ==
  /\ call.fn = "Increment"
  /\ \E w \in DOMAIN call.wpc :
       /\ call.wpc[w] = "recv" /\ call.queued = 0
       /\ call' = [call EXCEPT !.wpc[w] = "exit"]
  /\ UNCHANGED <<Processed, trest>>

\* lines 164-170: every worker has finished and ProcessBatch returns
TrackReturn ==
  /\ call.fn = "Increment" /\ call.pc = "running"
  /\ \A w \in DOMAIN call.wpc : call.wpc[w] = "exit"
  /\ call' = [call EXCEPT !.pc = "returned"]
  /\ UNCHANGED <<Processed, trest>>

NextTrack ==
  \/ TrackCall
  \/ TrackTake
  \/ TrackAdd
  \/ TrackReport
  \/ TrackExit
  \/ TrackReturn

SpecTrack == InitTrack /\ [][NextTrack]_vars

\* how often the processed count v has been reported
TimesReported(v) == Cardinality({i \in 1..Len(call.reports) : call.reports[i] = v})

\* the multiples of the report interval up to n
MultiplesUpTo(n) == {v \in 1..n : v % ReportEvery = 0}

\* ---- C27: during a batch of N jobs run by W concurrent workers the tracker
\* never reports a processed count above N, reports completion (processed = N)
\* and every multiple of 100 at most once, and when ProcessBatch has returned
\* it has reported completion exactly once and every multiple of 100 up to N
\* exactly once, and the processed count equals N.
C27_ProgressReports ==
  call.fn = "Increment" =>
    /\ Processed <= call.Total
    /\ \A i \in 1..Len(call.reports) : call.reports[i] \in 1..call.Total
    /\ TimesReported(call.Total) <= 1
    /\ \A v \in MultiplesUpTo(call.Total) : TimesReported(v) <= 1
    /\ call.pc = "returned" =>
         /\ Processed = call.Total
         /\ TimesReported(call.Total) = 1
         /\ \A v \in MultiplesUpTo(call.Total) : TimesReported(v) = 1

\* two workers finish jobs 100 and 101 of 101 and the completion is printed
\* before the multiple of 100
C27_Witness ==
  /\ call.fn = "Increment" /\ call.pc = "returned"
  /\ call.Total = ReportEvery + 1
  /\ call.reports = <<ReportEvery + 1, ReportEvery>>

\* ------------------------------------------------- AddGeometry on its own
\* the bounds of the geometries offered to the index: two boxes with area, a
\* vertical segment, a point, and unavailable bounds
AddBoxes == {<<0, 0, 2, 1>>, <<-1, -1, 1, 1>>, <<1, 0, 1, 3>>, <<2, 2, 2, 2>>, NoBox}

InitAdd ==
  /\ NumCPU = 1 /\ ppNumWorkers = 1 /\ BatchIdle /\ PipeIdle
  /\ \E cellSize \in 1..MaxCell : spatialIndex = NewSpatialIndex(cellSize)
  /\ call = NoCall
  /\ heap = <<>>

\* AddGeometry with a nil handle; `call` keeps the argument and the index as it
\* was before the call
AddNil ==
  /\ call' = [fn |-> "AddGeometry", geom |-> Nil, before |-> spatialIndex]
  /\ spatialIndex' = AddGeometry(spatialIndex, heap, Nil, Len(heap), "p")
  /\ UNCHANGED <<NumCPU, heap, bvars, pvars>>

\* AddGeometry with the handle of a fresh geometry
AddHandle ==
  /\ Len(heap) < MaxIndexed
  /\ \E b \in AddBoxes :
       /\ heap' = Alloc(heap, Poly(b), 0)
       /\ spatialIndex' = AddGeometry(spatialIndex, Alloc(heap, Poly(b), 0), NewHandle(heap),
                                      Len(heap), "p")
  /\ call' = [fn |-> "AddGeometry", geom |-> NewHandle(heap), before |-> spatialIndex]
  /\ UNCHANGED <<NumCPU, bvars, pvars>>

NextAdd == AddNil \/ AddHandle

SpecAdd == InitAdd /\ [][NextAdd]_vars

\* the argument of the last call had unavailable bounds
BoundsUnavailable == call.geom # Nil /\ Bounds(Geom(heap, call.geom)) = NoBox

\* the bounding box of the argument of the last call has zero area
ZeroAreaBounds ==
  call.geom # Nil /\ Bounds(Geom(heap, call.geom)) # NoBox /\ Area(Geom(heap, call.geom)) = 0

\* a nil handle leaves the index as it was
NilHandleIgnored ==
  (call.fn = "AddGeometry" /\ call.geom = Nil) => spatialIndex = call.before

\* unavailable bounds leave the grid as it was
NoBoundsKeepsGrid ==
  (call.fn = "AddGeometry" /\ BoundsUnavailable) => spatialIndex.grid = call.before.grid

\* ---- C31: AddGeometry of a nil handle, of a geometry whose bounds are
\* unavailable, or of one whose bounding box has zero area leaves the index as
\* it was: every grid cell and the record list.
C31_RejectedLeavesIndex ==
  (call.fn = "AddGeometry" /\ (call.geom = Nil \/ BoundsUnavailable \/ ZeroAreaBounds)) =>
    spatialIndex = call.before

\* the two rejected cases on their own
NoBoundsLeavesIndex ==
  (call.fn = "AddGeometry" /\ BoundsUnavailable) => spatialIndex = call.before

ZeroAreaLeavesIndex ==
  (call.fn = "AddGeometry" /\ ZeroAreaBounds) => spatialIndex = call.before

\* ------------------------------------------------- snapGeometry on its own
\* the post-parse boxes of the records: three within the search radius of each
\* other and one far away
FoldBoxes ==
  {<<-50, 0, 50, 100>>, <<55, 0, 155, 100>>, <<55, 100, 155, 200>>, <<2000, 0, 2100, 100>>}

\* CleanTopology line 49: the index of the request
InitFold ==
  /\ NumCPU = 1 /\ ppNumWorkers = 1 /\ BatchIdle /\ PipeIdle
  /\ spatialIndex = NewSpatialIndex(SnapTolerance * 100)
  /\ call = NoCall
  /\ heap = <<>>

\* CleanTopology lines 71-73: record i is added with Index i
FoldAdd ==
  /\ call.fn = "none"
  /\ Len(spatialIndex.geometries) < MaxIndexed
  /\ \E b \in FoldBoxes :
       /\ heap' = Alloc(heap, Poly(b), Len(heap) + 1)
       /\ spatialIndex' = AddGeometry(spatialIndex, Alloc(heap, Poly(b), Len(heap) + 1),
                                      NewHandle(heap), Len(spatialIndex.geometries), "p")
  /\ UNCHANGED <<NumCPU, call, bvars, pvars>>

\* the Snap job of one record run to its end: the neighbors in any map order,
\* the kernel answering each snap with any of its outcomes
FoldSnap ==
  /\ call.fn = "none"
  /\ \E i \in 1..Len(spatialIndex.geometries) :
       LET rec == spatialIndex.geometries[i]
           job == [GeomFeature |-> [Geom |-> rec.Geom, Properties |-> rec.Properties],
                   Index |-> rec.Index, Tolerance |-> SnapTolerance]
           found == FindNeighbors(spatialIndex, heap, rec.Geom, SearchRadius(SnapTolerance))
       IN \E nbrs \in Orders(found) :
            \E ks \in [1..Len(nbrs) -> SnapChoices(SnapTolerance)] :
              /\ heap' = snapGeometry(heap, job, nbrs, ks).heap
              /\ call' = [fn |-> "snapGeometry", job |-> job, neighbors |-> nbrs,
                          answers |-> ks,
                          result |-> snapGeometry(heap, job, nbrs, ks).result]
  /\ spatialIndex' = IndexAfterQuery(spatialIndex)
  /\ UNCHANGED <<NumCPU, bvars, pvars>>

NextFold ==
  \/ FoldAdd
  \/ FoldSnap

SpecFold == InitFold /\ [][NextFold]_vars

\* the distortion score between the geometry the job was given and the one its
\* result holds
FoldedScore ==
  calculateGeometryDistortion(heap, call.job.GeomFeature.Geom, call.result.GeomFeature.Geom)

\* ---- C36: after the Snap job of a record has folded the snap policy over
\* all its neighbors, the distortion score between the record's post-parse
\* geometry and the geometry it finally holds is at most maxDistortion (a tenth
\* of the tolerance), for any number of neighbors.
C36_FoldWithinBudget ==
  call.fn = "snapGeometry" => ScoreLE(FoldedScore, call.job.Tolerance \div 10)

\* with at most one neighbor the folded score is within the budget
OneNeighborWithinBudget ==
  (call.fn = "snapGeometry" /\ Len(call.neighbors) <= 1) =>
    ScoreLE(FoldedScore, call.job.Tolerance \div 10)

\* a call of the part_000 version on a non-nil geometry
IndexCorrelatedCall ==
  call.fn = "TruncateFullGeometry" /\ call.version = "part_000" /\ ~call.nilInput

\* the collector waits for a result although no goroutine is left to send one
\* and the channel is empty
CollectorStuck ==
  /\ call.pc = "collect" /\ call.got < Awaited(call.version, call.parts)
  /\ call.pending = {} /\ call.polygons = <<>>

\* the results collected so far stand in slots of the output slice, each in its own
SlotsDistinct ==
  IndexCorrelatedCall =>
    /\ Len(call.newPolygons) = Len(call.parts)
    /\ \A i \in 1..Len(call.newPolygons) : call.newPolygons[i].Index \in {0, i}
    /\ Cardinality({i \in 1..Len(call.newPolygons) : call.newPolygons[i].Index = i}) = call.got

\* ---- C38: in the part_000 version of TruncateFullGeometry the number of
\* results the collector waits for equals the number of goroutines launched,
\* every result is stored in a slot of its own within the output slice, and
\* the collector is never left waiting for a result that nobody will send.
C38_AwaitedEqualsLaunched ==
  IndexCorrelatedCall =>
    /\ Awaited(call.version, call.parts) = Cardinality(LaunchedParts(call.parts))
    /\ SlotsDistinct
    /\ ~CollectorStuck

\* the version of polygon-utils.go is never left waiting
ArrivalVersionNeverStuck ==
  (call.fn = "TruncateFullGeometry" /\ call.version = "polygon-utils") => ~CollectorStuck

\* ------------------------------------------------- CascadedUnion (dissolve.go)
\* The recursion is kept as a stack of frames in `call`: a frame works on the
\* slice geometries[lo:hi] (lo inclusive, hi exclusive, counted from 1); the
\* handles of the n inputs are 1..n, and `src` of a handle is the set of inputs
\* its geometry is the union of.
MaxInputs == 4     \* length of the input list: 0..MaxInputs
MaxDepth == 6      \* frames the goroutine's stack holds before the runtime aborts

UnionBoxes == {<<0, 0, 10, 10>>, <<10, 0, 20, 10>>}

\* left.Union(right): the bounds of the union
UnionGeom(a, b) ==
  Poly(<<Min(a.box[1], b.box[1]), Min(a.box[2], b.box[2]),
         Max(a.box[3], b.box[3]), Max(a.box[4], b.box[4])>>)

\* a clean-up that forgets the right operand
UnionReleaseLeft(h, left, right) == Destroy(h, left)

\* lines 26-27: left.Destroy(); right.Destroy()
UnionRelease(h, left, right) == Destroy(Destroy(h, left), right)

\* the frame of a call on geometries[lo:hi]
Frame(lo, hi) == [lo |-> lo, hi |-> hi, pc |-> "start", left |-> Nil, right |-> Nil]

\* line 12: mid := len(geometries) / 2, as a position of the whole list
Mid(f) == f.lo + (f.hi - f.lo) \div 2

InitUnion ==
  /\ NumCPU = 1 /\ ppNumWorkers = 1 /\ BatchIdle /\ PipeIdle
  /\ spatialIndex = NewSpatialIndex(1)
  /\ call = NoCall
  /\ heap = <<>>

urest == <<NumCPU, spatialIndex, bvars, pvars>>

\* dissolveHandler line 257: the call on a list of n buffered parts
UnionCall ==
  /\ call.fn = "none"
  /\ \E n \in 0..MaxInputs :
       /\ \E bs \in [1..n -> UnionBoxes] :
            heap' = [i \in 1..n |-> [geom |-> Poly(bs[i]), rel |-> 0, src |-> {i}]]
       /\ call' = [fn |-> "CascadedUnion", n |-> n, pc |-> "running", ret |-> Nil,
                   stack |-> <<Frame(1, n + 1)>>]
  /\ UNCHANGED urest

\* a call returns v to its caller: the outermost call to the handler, a left
\* call at line 13, a right call at line 17
Deliver(stack, v) ==
  IF Len(stack) = 1 THEN [call EXCEPT !.pc = "returned", !.ret = v, !.stack = <<>>]
  ELSE LET below == SubSeq(stack, 1, Len(stack) - 1)
           p == below[Len(below)]
       IN [call EXCEPT !.stack =
             [below EXCEPT ![Len(below)] =
                IF p.pc = "left" THEN [p EXCEPT !.left = v, !.pc = "callright"]
                ELSE [p EXCEPT !.right = v, !.pc = "union"]]]

\* lines 7-9: a list of one geometry is returned as it is
UnionBase ==
  /\ call.fn = "CascadedUnion" /\ call.pc = "running"
  /\ LET f == call.stack[Len(call.stack)]
     IN /\ f.pc = "start" /\ f.hi - f.lo = 1
        /\ call' = Deliver(call.stack, f.lo)
  /\ UNCHANGED <<heap, urest>>

\* lines 12-13: the call on the left half
UnionLeft ==
  /\ call.fn = "CascadedUnion" /\ call.pc = "running"
  /\ Len(call.stack) < MaxDepth
  /\ LET f == call.stack[Len(call.stack)]
     IN /\ f.pc = "start" /\ f.hi - f.lo # 1
        /\ call' = [call EXCEPT !.stack =
                      Append([@ EXCEPT ![Len(@)].pc = "left"], Frame(f.lo, Mid(f)))]
  /\ UNCHANGED <<heap, urest>>

\* line 17: the call on the right half
UnionRight ==
  /\ call.fn = "CascadedUnion" /\ call.pc = "running"
  /\ Len(call.stack) < MaxDepth
  /\ LET f == call.stack[Len(call.stack)]
     IN /\ f.pc = "callright"
        /\ call' = [call EXCEPT !.stack =
                      Append([@ EXCEPT ![Len(@)].pc = "right"], Frame(Mid(f), f.hi))]
  /\ UNCHANGED <<heap, urest>>

\* lines 23-29: the union of the two results, their release, and the return
UnionStep ==
  /\ call.fn = "CascadedUnion" /\ call.pc = "running"
  /\ LET f == call.stack[Len(call.stack)]
         h1 == Append(heap, [geom |-> UnionGeom(Geom(heap, f.left), Geom(heap, f.right)),
                             rel |-> 0, src |-> heap[f.left].src \cup heap[f.right].src])
     IN /\ f.pc = "union"
        /\ heap' = UnionRelease(h1, f.left, f.right)
        /\ call' = Deliver(call.stack, NewHandle(heap))
  /\ UNCHANGED urest

\* a nested call that finds the goroutine's stack exhausted: the Go runtime
\* ends the process with a fatal stack overflow, which no recover() catches
UnionOverflow ==
  /\ call.fn = "CascadedUnion" /\ call.pc = "running"
  /\ Len(call.stack) = MaxDepth
  /\ LET f == call.stack[Len(call.stack)]
     IN (f.pc = "start" /\ f.hi - f.lo # 1) \/ f.pc = "callright"
  /\ call' = [call EXCEPT !.pc = "overflow"]
  /\ UNCHANGED <<heap, urest>>

NextUnion ==
  \/ UnionCall
  \/ UnionBase
  \/ UnionLeft
  \/ UnionRight
  \/ UnionStep
  \/ UnionOverflow

SpecUnion == InitUnion /\ [][NextUnion]_vars

\* the goroutine of the handler keeps running
SpecUnionLive ==
  /\ SpecUnion
  /\ WF_vars(UnionBase) /\ WF_vars(UnionLeft) /\ WF_vars(UnionRight) /\ WF_vars(UnionStep)
  /\ WF_vars(UnionOverflow)

\* every nested call works on a shorter list than its caller
NestedCallsShrink ==
  call.fn = "CascadedUnion" =>
    \A k \in 2..Len(call.stack) :
      call.stack[k].hi - call.stack[k].lo < call.stack[k - 1].hi - call.stack[k - 1].lo

\* the call has returned to the handler
UnionReturned == call.fn = "CascadedUnion" /\ call.pc = "returned"

\* ---- C39: CascadedUnion terminates and returns for every input list, of any
\* length including zero and one.
C39_UnionReturns == (call.fn = "CascadedUnion") ~> UnionReturned

\* the process is not ended by a stack overflow
NoStackOverflow == call.fn = "CascadedUnion" => call.pc # "overflow"

\* for a list that is not empty the call returns
NonEmptyUnionReturns ==
  (call.fn = "CascadedUnion" /\ call.n >= 1) ~> UnionReturned

\* the frames that are about to read their two operands
AtUnion == {k \in 1..Len(call.stack) : call.stack[k].pc = "union"}

\* the handles made by a union
Intermediate == {h \in DOMAIN heap : h > call.n}

\* ---- C40: for a list of n >= 2 geometries no handle is ever released twice,
\* the two operands of a union are unreleased when they are read, and when
\* CascadedUnion has returned every input handle and every intermediate union
\* handle has been released exactly once, the returned handle has not been
\* released, and the returned geometry is the union of all n inputs.
C40_UnionReleasesOperands ==
  (call.fn = "CascadedUnion" /\ call.n >= 2) =>
    /\ \A h \in DOMAIN heap : heap[h].rel <= 1
    /\ \A k \in AtUnion :
         heap[call.stack[k].left].rel = 0 /\ heap[call.stack[k].right].rel = 0
    /\ call.pc = "returned" =>
         /\ call.ret \in Intermediate
         /\ heap[call.ret].rel = 0
         /\ \A h \in DOMAIN heap : h # call.ret => heap[h].rel = 1
         /\ heap[call.ret].src = 1..call.n
         /\ Cardinality(Intermediate) = call.n - 1

\* a returned call on the longest list, which went through intermediate unions
\* of both halves
C40_Witness ==
  /\ UnionReturned /\ call.n = MaxInputs
  /\ \E h \in Intermediate : h # call.ret /\ heap[h].rel = 1
  /\ Geom(heap, call.ret).box # Geom(heap, 1).box

====
